---- MODULE Spec2Model ----
(***************************************************************************)
(* Progress / identity persistence engine of the esheets library.          *)
(*                                                                         *)
(* Three builds of the library are modelled; `lib` says which one the page *)
(* has loaded:                                                             *)
(*   "v5"   src/v5/esheets.js      (two modules in one script; the second, *)
(*                                  "canonical v5", overrides init,        *)
(*                                  setScore, getProgress of the first)    *)
(*   "v51"  src/unnamed/part_000   (v5.1, explicit submission model)       *)
(*   "auto" src/unnamed/part_001   (v5 with score auto-detection)          *)
(*                                                                         *)
(* JavaScript values are records [k, n, d]: k is the kind, n/d a rational  *)
(* in lowest terms for numbers (d > 0), n a tick for timestamps.           *)
(* Floating point is abstracted by exact rationals; worksheet ids are      *)
(* plain strings that are not property names of Object.prototype.          *)
(***************************************************************************)
EXTENDS Integers, Sequences, FiniteSets, TLC

\* ------------------------------------------------------------------ bounds
\* largest score of the small grid of (score, max) arguments
MaxScoreArg == 2
\* number of timestamps (new Date()) a behaviour may take
MaxClock == 2
\* the largest document of the discovery specification
MaxDom == 2
\* the most deferred discovery callbacks pending, and observers per element
MaxTimers == 2

\* ------------------------------------------------------- JavaScript values
Abs(x) == IF x < 0 THEN -x ELSE x

RECURSIVE Gcd(_, _)
Gcd(a, b) == IF b = 0 THEN a ELSE Gcd(b, a % b)

\* a number n/d, reduced
JNum(n, d) ==
    LET g == Gcd(Abs(n), Abs(d))
        sg == IF d < 0 THEN -1 ELSE 1
    IN  [k |-> "num", n |-> sg * (n \div g), d |-> sg * (d \div g)]

JInt(i) == [k |-> "num", n |-> i, d |-> 1]
NaN == [k |-> "nan", n |-> 0, d |-> 1]
Null == [k |-> "null", n |-> 0, d |-> 1]
Undef == [k |-> "undef", n |-> 0, d |-> 1]
\* a non-empty string that is not a number, e.g. "7"
JStr == [k |-> "str", n |-> 0, d |-> 1]
\* new Date().toISOString() taken at tick t
JTime(t) == [k |-> "time", n |-> t, d |-> 1]

IsNum(v) == v.k = "num"
\* typeof v === 'number'
TypeofNumber(v) == v.k \in {"num", "nan"}
\* isNaN(v) for a value of type number
IsNaN(v) == v.k = "nan"
\* ToBoolean(v)
Truthy(v) ==
    CASE v.k = "num" -> v.n # 0
      [] v.k \in {"str", "time"} -> TRUE
      [] OTHER -> FALSE
\* v || 0
OrZero(v) == IF Truthy(v) THEN v ELSE JInt(0)
\* a > b ; any comparison with NaN is false
Gt(a, b) == IsNum(a) /\ IsNum(b) /\ a.n * b.d > b.n * a.d
\* Math.abs(a - b) < 0.001
AbsDiffLt001(a, b) ==
    IsNum(a) /\ IsNum(b) /\ 1000 * Abs(a.n * b.d - b.n * a.d) < a.d * b.d
\* Math.max(lo, v) for an integer lo
MathMax(lo, v) == IF IsNum(v) THEN (IF Gt(JInt(lo), v) THEN JInt(lo) ELSE v) ELSE NaN
\* (s / m) * 100, m >= 1
Percent(s, m) ==
    IF IsNum(s) /\ IsNum(m) THEN JNum(100 * s.n * m.d, s.d * m.n) ELSE NaN
\* Math.round(p): floor(p + 1/2)
MathRound(p) == IF IsNum(p) THEN JInt((2 * p.n + p.d) \div (2 * p.d)) ELSE NaN
\* a + 1
PlusOne(a) == IF IsNum(a) THEN JNum(a.n + a.d, a.d) ELSE NaN

\* JSON.stringify followed by JSON.parse of one property value:
\* NaN is written as null, everything else survives
JsonValue(v) == IF v.k = "nan" THEN Null ELSE v

\* ------------------------------------------------------- persisted storage
\* localStorage keys
KeyV1 == "esheets:v1:progress"
KeyV5 == "esheets:v5:progress"
KeyIdentity == "esheets:v5:identity"
Keys == {KeyV1, KeyV5, KeyIdentity}

\* worksheet ids the host page may pass to init; "" is the empty string and
\* "undefined" stands for a missing worksheet_id (its property-key coercion)
Ids == {"w1", "w2"}
NoIds == {"", "undefined"}
\* id === '' : misses a worksheet_id that is not there
IdIsEmptyString(id) == id = ""

\* !id
IdFalsy(id) == id \in NoIds

Fields == {"bestScore", "maxScore", "bestPercent", "lastScore", "lastPercent",
           "submittedAt", "attempts", "lastAttemptAt", "completedAt"}

\* an object with no own property among Fields
EmptyRecord == [f \in Fields |-> Undef]
\* the table {}
EmptyTable == [i \in {} |-> EmptyRecord]

\* a storage item: none (getItem gives null), or a string that is the empty
\* string, a JSON document holding a table, text that is not JSON, or a JSON
\* document of another shape: null, a primitive (5, "x") or the array []
NoItem == [kind |-> "none", doc |-> EmptyTable]
EmptyItem == [kind |-> "empty", doc |-> EmptyTable]
GarbageItem == [kind |-> "garbage", doc |-> EmptyTable]
JsonItem(t) == [kind |-> "json", doc |-> t]
JsonNullItem == [kind |-> "jsonNull", doc |-> EmptyTable]
JsonPrimItem == [kind |-> "jsonPrim", doc |-> EmptyTable]
JsonArrayItem == [kind |-> "jsonArray", doc |-> EmptyTable]
ItemKinds == {"none", "empty", "garbage", "json", "jsonNull", "jsonPrim", "jsonArray"}
\* a string is truthy unless empty; null is falsy
RawTruthy(raw) == raw.kind \notin {"none", "empty"}
\* what JSON.parse(raw) is, for a raw string that parses
ParsedShape(raw) ==
    CASE raw.kind = "jsonNull" -> "null"
      [] raw.kind = "jsonPrim" -> "primitive"
      [] raw.kind = "jsonArray" -> "array"
      [] OTHER -> "object"

\* JSON.stringify of a table followed by JSON.parse: property by property;
\* undefined properties are omitted (they stay Undef)
Stringify(data) == [i \in DOMAIN data |-> [f \in Fields |-> JsonValue(data[i][f])]]

VARIABLES
    lib,        \* which build of the library the page loaded
    hasRoot,    \* the document has a .esheets-worksheet element
    store,      \* localStorage: key -> item
    meta,       \* meta.worksheet_id of the module that owns init
    meta1,      \* meta.worksheet_id of the first module of src/v5/esheets.js
    isMounted,  \* canonical v5: init has run on a worksheet page
    scoreText,  \* text of the data-esheets-score placeholders
    clock,      \* ticks of new Date()
    lastCall,   \* the last public operation called: its name, arguments, worksheet id
    ret,        \* what the last getProgress returned
    maxRaw,     \* per id, the highest raw score on record or observed so far
    access,     \* localStorage: "ok", "denied" (getItem and setItem throw),
                \* "full" (setItem throws), "unreadable" (getItem throws)
    threw,      \* the last public operation threw to its caller
    trackingAdapter, \* canonical v5: "none", or a function that returns ("ok")
                     \* or throws ("throws")
    idArg,      \* the updates object of the last setIdentity
    idRet,      \* what the last getIdentity / setIdentity returned
    adapterLog, \* the tracking-adapter invocations of the last operation: how
                \* many, and the payload of the last one
    dom,        \* the elements of the document, in document order
    found,      \* what the last findScoreElement returned: an index into dom, 0 for null
    timers,     \* pending setTimeout(autoAttachScoreObserver, 0) callbacks
    observers,  \* per element of dom, the MutationObservers attached to it
    parseLog,   \* the results of the observer parse() runs of the last step
    tabPc,      \* a second tab on the same origin: "idle", or "loaded" when
                \* its saveRecord has read the table and not yet written it
    tabSnap,    \* the table the second tab's saveRecord read
    tabArg,     \* the submit the second tab is running
    upArg,      \* the updates object of the last saveRecord
    pending,    \* the MutationObservers of element 1 that hold undelivered records
    holder,     \* where the score placeholder is: "apart" from element 1,
                \* element 1 it"self", or "inside" it as its last child
    buttons,    \* per data-esheets-reset button: its text, and per registration
                \* of the two-click handler its armed flag and its timer
    fired       \* per button, the esheets:reset events the last step dispatched

vars == <<lib, hasRoot, store, meta, meta1, isMounted, scoreText, clock, lastCall, ret, maxRaw,
          access, threw, trackingAdapter, idArg, idRet, adapterLog, dom, found, timers,
          observers, parseLog, tabPc, tabSnap, tabArg, upArg, pending, holder,
          buttons, fired>>
\* the variables the identity functions neither read nor write
progressVars == <<hasRoot, meta, meta1, isMounted, scoreText, clock, ret, maxRaw, trackingAdapter>>
\* the variables only the identity functions write
identityVars == <<idArg, idRet>>
\* the document and its deferred callbacks and observers
pageVars == <<dom, found, timers, observers, pending, holder, buttons, fired>>
\* the second tab
tabVars == <<tabPc, tabSnap, tabArg>>
\* the reset buttons
resetVars == <<buttons, fired>>

\* ---------------------------------------------------------- storage codec
\* getStorage of the modules whose STORAGE_KEY is esheets:v1:progress
\* (as the table of its own properties: a primitive or an array has none)
getStorageV1(st) ==
    LET raw == st[KeyV1]
    IN  IF access \in {"denied", "unreadable"} THEN EmptyTable
        ELSE IF raw.kind = "json" THEN raw.doc ELSE EmptyTable

\* getStorage that reads the current key only
getStorageCurrentOnly(st) ==
    IF st[KeyV5].kind = "json" THEN st[KeyV5].doc ELSE EmptyTable

\* getStorage of canonical v5: current key, else the legacy key
getStorage(st) ==
    LET raw == st[KeyV5]
        legacy == st[KeyV1]
    IN  IF access \in {"denied", "unreadable"} THEN EmptyTable
        ELSE IF RawTruthy(raw)
        THEN (IF raw.kind = "json" THEN raw.doc ELSE EmptyTable)
        ELSE IF RawTruthy(legacy)
             THEN (IF legacy.kind = "json" THEN legacy.doc ELSE EmptyTable)
             ELSE EmptyTable

\* the shape of the value getStorage of build l returns: JSON.parse of the
\* item it reads, or {} when there is none or the read or the parse throws
StorageShape(l, st) ==
    IF access \in {"denied", "unreadable"} THEN "object"
    ELSE IF l = "v5"
    THEN (IF RawTruthy(st[KeyV5]) THEN ParsedShape(st[KeyV5])
          ELSE IF RawTruthy(st[KeyV1]) THEN ParsedShape(st[KeyV1]) ELSE "object")
    ELSE ParsedShape(st[KeyV1])

\* the key a build's setStorage writes
StorageKey(l) == IF l = "v5" THEN KeyV5 ELSE KeyV1

\* the table a build's getStorage yields
Load(l, st) == IF l = "v5" THEN getStorage(st) ELSE getStorageV1(st)

\* a setStorage whose write also drops the identity item
setStorageOneItem(l, st, data) ==
    IF access \in {"denied", "full"} THEN st
    ELSE [st EXCEPT ![StorageKey(l)] = JsonItem(Stringify(data)),
                    ![KeyIdentity] = [kind |-> "none", doc |-> @.doc]]

\* setStorage: localStorage.setItem(STORAGE_KEY, JSON.stringify(data)); a
\* setItem that throws is caught and leaves the item as it was
setStorage(l, st, data) ==
    IF access \in {"denied", "full"} THEN st
    ELSE [st EXCEPT ![StorageKey(l)] = JsonItem(Stringify(data))]

\* data[id] of getRecord throws: data is null
getRecordThrows(l, st, id) == ~IdFalsy(id) /\ StorageShape(l, st) = "null"

\* saveRecord throws: data[id] on null, or data[id] = record on a primitive
\* in strict mode
saveRecordThrows(l, st, id) ==
    ~IdFalsy(id) /\ StorageShape(l, st) \in {"null", "primitive"}

\* getRecord(id): data[id] || null, as [present, rec]
getRecord(l, st, id) ==
    LET data == Load(l, st)
    IN  IF ~IdFalsy(id) /\ id \in DOMAIN data
        THEN [present |-> TRUE, rec |-> data[id]]
        ELSE [present |-> FALSE, rec |-> EmptyRecord]

\* the default record of saveRecord: v5.1 / canonical v5 layout
DefaultRecord ==
    [f \in Fields |->
        CASE f \in {"bestScore", "maxScore", "bestPercent", "lastScore", "lastPercent"} -> JInt(0)
          [] f = "submittedAt" -> Null
          [] OTHER -> Undef]

\* the default record of saveRecord: attempts layout (first module, part_001)
DefaultRecordV1 ==
    [f \in Fields |->
        CASE f \in {"bestScore", "maxScore", "bestPercent", "attempts"} -> JInt(0)
          [] f \in {"lastAttemptAt", "completedAt"} -> Null
          [] OTHER -> Undef]

\* saveRecord that persists the updated record alone
saveRecordAlone(l, def, st, id, updates) ==
    IF IdFalsy(id) THEN st
    ELSE LET data == Load(l, st)
             old == IF id \in DOMAIN data THEN data[id] ELSE def
             record == [f \in Fields |-> IF f \in DOMAIN updates THEN updates[f] ELSE old[f]]
         IN  setStorage(l, st, [i \in {id} |-> record])

\* a record built from the default every time, whatever is stored
MergedRecordFromDefault(def, data, id, updates) ==
    [f \in Fields |-> IF f \in DOMAIN updates THEN updates[f] ELSE def[f]]

\* the record saveRecord builds from table data: the old record, or the
\* default def, with the updates laid over it
MergedRecord(def, data, id, updates) ==
    LET old == IF id \in DOMAIN data THEN data[id] ELSE def
    IN  [f \in Fields |-> IF f \in DOMAIN updates THEN updates[f] ELSE old[f]]

\* a save that reads the table again just before it writes
saveRecordFromFresh(l, def, st, data, id, updates) ==
    LET fresh == Load(l, st)
        record == MergedRecord(def, data, id, updates)
        data2 == [i \in DOMAIN fresh \cup {id} |-> IF i = id THEN record ELSE fresh[i]]
    IN  setStorage(l, st, data2)

\* saveRecord from the point where getStorage has returned the table data:
\* data[id] = record; setStorage(data), on the store st of that later moment
saveRecordFrom(l, def, st, data, id, updates) ==
    LET record == MergedRecord(def, data, id, updates)
        data2 == [i \in DOMAIN data \cup {id} |-> IF i = id THEN record ELSE data[i]]
    IN  setStorage(l, st, data2)

\* saveRecord(id, updates) of build l with default record def: the store
\* afterwards.  updates is a function from some fields to values.
saveRecord(l, def, st, id, updates) ==
    IF IdFalsy(id) THEN st
    ELSE IF saveRecordThrows(l, st, id) THEN st
    ELSE IF StorageShape(l, st) = "array"
    THEN (IF access \in {"denied", "full"} THEN st ELSE [st EXCEPT ![StorageKey(l)] = JsonArrayItem])
    ELSE saveRecordFrom(l, def, st, Load(l, st), id, updates)

\* ------------------------------------------------------------ score logic
\* the record the score handlers fall back to: { bestPercent: 0, bestScore: 0 }
FallbackRecord == [f \in Fields |-> IF f \in {"bestPercent", "bestScore"} THEN JInt(0) ELSE Undef]

\* getRecord(meta.worksheet_id) || { bestPercent: 0, bestScore: 0 }
RecordOrFallback(l, st, id) ==
    LET r == getRecord(l, st, id) IN IF r.present THEN r.rec ELSE FallbackRecord

\* Improved without the tie-break on the raw score
ImprovedPercentOnly(pct, s, record) == Gt(pct, OrZero(record["bestPercent"]))

\* the best-score test shared by submit and setScoreImpl:
\* pct > currentBestPercent ||
\*   (Math.abs(pct - currentBestPercent) < 0.001 && s > currentBestScore)
Improved(pct, s, record) ==
    LET currentBestPercent == OrZero(record["bestPercent"])
        currentBestScore == OrZero(record["bestScore"])
    IN  \/ Gt(pct, currentBestPercent)
        \/ AbsDiffLt001(pct, currentBestPercent) /\ Gt(s, currentBestScore)

\* the argument check of setScore / setScoreImpl / submit of v5.1
ValidNumbers(score, maxScore) ==
    TypeofNumber(score) /\ TypeofNumber(maxScore) /\ ~IsNaN(score) /\ ~IsNaN(maxScore)

\* the argument check of submit of canonical v5: typeof only
ValidNumbersV5(score, maxScore) == TypeofNumber(score) /\ TypeofNumber(maxScore)

\* pct of canonical v5: (m > 0) ? (s / m) * 100 : 0
PercentV5(s, m) == IF Gt(m, JInt(0)) THEN Percent(s, m) ELSE JInt(0)

\* the text 'Score: s / m (round(pct)%)' as its three numbers
ScoreTextOf(s, m, pct) == <<s, m, MathRound(pct)>>

\* the updates object of submit with the best score taken from the denominator
SubmitUpdatesSwapped(s, m, pct, now, record) ==
    [f \in {"lastScore", "lastPercent", "submittedAt", "maxScore"}
           \cup (IF Improved(pct, s, record) THEN {"bestPercent", "bestScore"} ELSE {}) |->
        CASE f = "lastScore" -> s
          [] f = "lastPercent" -> pct
          [] f = "submittedAt" -> now
          [] f = "maxScore" -> m
          [] f = "bestPercent" -> pct
          [] f = "bestScore" -> m]

\* the updates object of submit that records the last observation only when
\* it is a new best
SubmitUpdatesOnlyIfBest(s, m, pct, now, record) ==
    [f \in (IF Improved(pct, s, record)
            THEN {"lastScore", "lastPercent", "bestPercent", "bestScore"} ELSE {})
           \cup {"submittedAt", "maxScore"} |->
        CASE f = "lastScore" -> s
          [] f = "lastPercent" -> pct
          [] f = "submittedAt" -> now
          [] f = "maxScore" -> m
          [] f = "bestPercent" -> pct
          [] f = "bestScore" -> s]

\* the updates object built by submit
SubmitUpdates(s, m, pct, now, record) ==
    [f \in {"lastScore", "lastPercent", "submittedAt", "maxScore"}
           \cup (IF Improved(pct, s, record) THEN {"bestPercent", "bestScore"} ELSE {}) |->
        CASE f = "lastScore" -> s
          [] f = "lastPercent" -> pct
          [] f = "submittedAt" -> now
          [] f = "maxScore" -> m
          [] f = "bestPercent" -> pct
          [] f = "bestScore" -> s]

\* submit of canonical v5 gets past its early returns
submitGuardV5(mounted, id, score, maxScore) ==
    mounted /\ ~IdFalsy(id) /\ ValidNumbersV5(score, maxScore)

\* submit(score, maxScore) of canonical v5: the store afterwards
submit(st, mounted, id, score, maxScore, now) ==
    LET s == MathMax(0, score)
        m == MathMax(1, maxScore)
        pct == PercentV5(s, m)
        record == RecordOrFallback("v5", st, id)
    IN  IF ~submitGuardV5(mounted, id, score, maxScore) THEN st
        ELSE saveRecord("v5", DefaultRecord, st, id, SubmitUpdates(s, m, pct, now, record))

\* the tracking adapter called before the record is saved and outside any
\* try: a throwing adapter aborts the submit
notifyAdapterUncaught(adapter, before, after) ==
    IF adapter = "throws" THEN [store |-> before, threw |-> TRUE]
    ELSE [store |-> after, threw |-> FALSE]

\* the tail of submit: with the record saved (store `after`), a tracking
\* adapter that is a function is called inside try / catch
notifyAdapter(adapter, before, after) == [store |-> after, threw |-> FALSE]

\* an adapter of the host page that calls back into the library: for a
\* payload whose score is not 0 it runs ESHEETS.submit(0, 1)
ResubmitPair == <<JInt(0), JInt(1)>>
adapterResubmits(adapter, score) == adapter = "resubmits" /\ MathMax(0, score) # JInt(0)

\* the store after the body of the adapter ran on store st
adapterRun(adapter, st, mounted, id, score, now) ==
    IF adapterResubmits(adapter, score)
    THEN submit(st, mounted, id, ResubmitPair[1], ResubmitPair[2], now)
    ELSE st

\* submit whose table is read before the adapter runs and written after it
submitOutcomeStale(st, mounted, id, score, maxScore, now, adapter) ==
    IF ~submitGuardV5(mounted, id, score, maxScore) THEN [store |-> st, threw |-> FALSE]
    ELSE IF saveRecordThrows("v5", st, id) THEN [store |-> st, threw |-> TRUE]
    ELSE notifyAdapter(adapter, st, submit(st, mounted, id, score, maxScore, now))

\* submit(score, maxScore) of canonical v5 as its caller sees it: the store
\* afterwards and whether an exception came out.  The adapter is called with
\* the record saved, so what it does to the store comes after the save.
submitOutcome(st, mounted, id, score, maxScore, now, adapter) ==
    IF ~submitGuardV5(mounted, id, score, maxScore) THEN [store |-> st, threw |-> FALSE]
    ELSE IF saveRecordThrows("v5", st, id) THEN [store |-> st, threw |-> TRUE]
    ELSE notifyAdapter(adapter, st,
                       adapterRun(adapter, submit(st, mounted, id, score, maxScore, now),
                                  mounted, id, score, now))

\* submit of v5.1 gets past its early returns
submitGuardV51(id, score, maxScore) == ~IdFalsy(id) /\ ValidNumbers(score, maxScore)

\* submit(score, maxScore) of v5.1: the store afterwards
submitV51(st, id, score, maxScore, now) ==
    LET s == MathMax(0, score)
        m == MathMax(1, maxScore)
        pct == Percent(s, m)
        record == RecordOrFallback("v51", st, id)
    IN  IF ~submitGuardV51(id, score, maxScore) THEN st
        ELSE saveRecord("v51", DefaultRecord, st, id, SubmitUpdates(s, m, pct, now, record))

\* the updates object of setScoreImpl stamping completedAt at every
\* observation of 100 %
ScoreUpdatesRestamps(s, m, pct, now, record) ==
    [f \in (IF Improved(pct, s, record) THEN {"bestPercent", "bestScore", "maxScore"} ELSE {})
           \cup (IF AbsDiffLt001(pct, JInt(100)) THEN {"completedAt"} ELSE {})
           \cup (IF ~Truthy(record["attempts"]) THEN {"attempts", "lastAttemptAt"} ELSE {}) |->
        CASE f = "bestPercent" -> pct
          [] f = "bestScore" -> s
          [] f = "maxScore" -> m
          [] f = "completedAt" -> now
          [] f = "attempts" -> JInt(1)
          [] f = "lastAttemptAt" -> now]

\* the updates object of setScoreImpl recording the observation as a
\* submission
ScoreUpdatesAsSubmission(s, m, pct, now, record) ==
    [f \in {"lastScore", "lastPercent", "submittedAt"}
           \cup (IF Improved(pct, s, record) THEN {"bestPercent", "bestScore", "maxScore"} ELSE {})
           \cup (IF AbsDiffLt001(pct, JInt(100)) /\ ~Truthy(record["completedAt"])
                 THEN {"completedAt"} ELSE {})
           \cup (IF ~Truthy(record["attempts"]) THEN {"attempts", "lastAttemptAt"} ELSE {}) |->
        CASE f = "lastScore" -> s
          [] f = "lastPercent" -> pct
          [] f = "submittedAt" -> now
          [] f = "bestPercent" -> pct
          [] f = "bestScore" -> s
          [] f = "maxScore" -> m
          [] f = "completedAt" -> now
          [] f = "attempts" -> JInt(1)
          [] f = "lastAttemptAt" -> now]

\* the updates object built by setScoreImpl
ScoreUpdates(s, m, pct, now, record) ==
    [f \in (IF Improved(pct, s, record) THEN {"bestPercent", "bestScore", "maxScore"} ELSE {})
           \cup (IF AbsDiffLt001(pct, JInt(100)) /\ ~Truthy(record["completedAt"])
                 THEN {"completedAt"} ELSE {})
           \cup (IF ~Truthy(record["attempts"]) THEN {"attempts", "lastAttemptAt"} ELSE {}) |->
        CASE f = "bestPercent" -> pct
          [] f = "bestScore" -> s
          [] f = "maxScore" -> m
          [] f = "completedAt" -> now
          [] f = "attempts" -> JInt(1)
          [] f = "lastAttemptAt" -> now]

\* setScoreImpl(score, maxScore) of the module tagged l whose
\* meta.worksheet_id is id: the store afterwards
setScoreImpl(l, st, id, score, maxScore, now) ==
    LET s == MathMax(0, score)
        m == MathMax(1, maxScore)
        pct == Percent(s, m)
        record == RecordOrFallback(l, st, id)
    IN  IF ~ValidNumbers(score, maxScore) THEN st
        ELSE IF IdFalsy(id) THEN st
        ELSE saveRecord(l, DefaultRecordV1, st, id, ScoreUpdates(s, m, pct, now, record))

\* newAttempt() of the module tagged l whose meta.worksheet_id is id
newAttempt(l, st, id, now) ==
    IF IdFalsy(id) THEN st
    ELSE LET g == getRecord(l, st, id)
             record == IF g.present THEN g.rec ELSE EmptyRecord
             newCount == PlusOne(OrZero(record["attempts"]))
         IN  saveRecord(l, DefaultRecordV1, st, id,
                        [f \in {"attempts", "lastAttemptAt", "completedAt"} |->
                            CASE f = "attempts" -> newCount
                              [] f = "lastAttemptAt" -> now
                              [] f = "completedAt" -> Null])

\* ------------------------------------------------------------ identity
\* strings are sequences of characters
IsSpace(c) == c \in {" ", "\t"}
IsNotSpace(c) == ~IsSpace(c)

RECURSIVE TrimStart(_)
TrimStart(s) == IF s # <<>> /\ IsSpace(Head(s)) THEN TrimStart(Tail(s)) ELSE s
RECURSIVE TrimEnd(_)
TrimEnd(s) ==
    IF s # <<>> /\ IsSpace(s[Len(s)]) THEN TrimEnd(SubSeq(s, 1, Len(s) - 1)) ELSE s
\* s.trim()
Trim(s) == TrimEnd(TrimStart(s))

LowerCase == <<"a", "b", "c", "d", "e", "f", "g", "h", "i", "j", "k", "l", "m",
               "n", "o", "p", "q", "r", "s", "t", "u", "v", "w", "x", "y", "z">>
UpperCase == <<"A", "B", "C", "D", "E", "F", "G", "H", "I", "J", "K", "L", "M",
               "N", "O", "P", "Q", "R", "S", "T", "U", "V", "W", "X", "Y", "Z">>
ToUpperChar(c) ==
    IF \E i \in 1..26 : LowerCase[i] = c
    THEN UpperCase[CHOOSE i \in 1..26 : LowerCase[i] = c] ELSE c
\* s.toUpperCase()
ToUpperCase(s) == [i \in 1..Len(s) |-> ToUpperChar(s[i])]
\* s.replace(/\s+/g, '')
RemoveWhitespace(s) == SelectSeq(s, IsNotSpace)

\* s.split(/\s+/): the tokens between runs of whitespace; inRun says the
\* previous character was whitespace
RECURSIVE SplitFrom(_, _, _, _)
SplitFrom(s, cur, acc, inRun) ==
    IF s = <<>> THEN Append(acc, cur)
    ELSE IF IsSpace(Head(s))
    THEN (IF inRun THEN SplitFrom(Tail(s), cur, acc, TRUE)
          ELSE SplitFrom(Tail(s), <<>>, Append(acc, cur), TRUE))
    ELSE SplitFrom(Tail(s), Append(cur, Head(s)), acc, FALSE)
SplitWs(s) == SplitFrom(s, <<>>, <<>>, FALSE)

\* parts.join(' ')
RECURSIVE JoinSp(_)
JoinSp(parts) ==
    IF parts = <<>> THEN <<>>
    ELSE IF Len(parts) = 1 THEN parts[1]
    ELSE parts[1] \o <<" ">> \o JoinSp(Tail(parts))

\* values of identity properties: a string, a number (5), undefined, or
\* (in an updates object only) no own property of that name
Str(s) == [t |-> "string", s |-> s]
EmptyStr == Str(<<>>)
NumberFive == [t |-> "number", s |-> <<>>]
Missing == [t |-> "undefined", s |-> <<>>]
NotGiven == [t |-> "notgiven", s |-> <<>>]
\* ToBoolean(v)
IdTruthy(v) == v.t = "number" \/ (v.t = "string" /\ v.s # <<>>)
\* v || ""
OrEmpty(v) == IF IdTruthy(v) THEN v ELSE EmptyStr

IdFields == {"first_name", "last_name", "class_code"}
DataFields == IdFields \cup {"student_name"}
\* { first_name: "", last_name: "", class_code: "" }
DefaultIdentity == [f \in IdFields |-> EmptyStr]
\* the object {} read as identity data
NoData == [f \in DataFields |-> Missing]
\* items under the identity key
IdItem(kind, data) == [kind |-> kind, doc |-> data]

\* the characters of CLASS_CODE_REGEX: A-H, J-N, P-Z, 2-9
ClassCodeChars ==
    {"A", "B", "C", "D", "E", "F", "G", "H", "J", "K", "L", "M", "N", "P", "Q", "R",
     "S", "T", "U", "V", "W", "X", "Y", "Z", "2", "3", "4", "5", "6", "7", "8", "9"}

\* normalizeClassCode without the upper-casing
normalizeKeepsCase(v) ==
    IF v.t # "string" THEN <<>> ELSE RemoveWhitespace(Trim(v.s))

\* normalizeClassCode(str)
normalizeClassCode(v) ==
    IF v.t # "string" THEN <<>> ELSE RemoveWhitespace(ToUpperCase(Trim(v.s)))

\* isValidClassCode with a pattern that is not anchored at the end
isValidPrefix(s) ==
    /\ Len(s) >= 9
    /\ s[5] = "-"
    /\ \A i \in {1, 2, 3, 4, 6, 7, 8, 9} : s[i] \in ClassCodeChars

\* isValidClassCode(str): CLASS_CODE_REGEX.test(str)
isValidClassCode(s) ==
    /\ Len(s) = 9
    /\ s[5] = "-"
    /\ \A i \in {1, 2, 3, 4, 6, 7, 8, 9} : s[i] \in ClassCodeChars

\* getIdentityStorage(): the identity object; every failure inside its try
\* gives the default
getIdentityStorage(st) ==
    LET raw == st[KeyIdentity]
    IN  IF access \in {"denied", "unreadable"} \/ raw.kind \in {"garbage", "jsonNull"} THEN DefaultIdentity
        ELSE LET data == IF raw.kind = "json" THEN raw.doc ELSE NoData
                 identity == [f \in IdFields |-> OrEmpty(data[f])]
                 legacy == data["student_name"]
             IN  IF ~IdTruthy(legacy) THEN identity
                 ELSE IF legacy.t # "string" THEN DefaultIdentity
                 ELSE LET parts == SplitWs(Trim(legacy.s))
                      IN  [f \in IdFields |->
                            CASE f = "first_name" ->
                                   IF ~IdTruthy(identity[f]) THEN Str(parts[1])
                                   ELSE identity[f]
                              [] f = "last_name" ->
                                   IF ~IdTruthy(identity[f]) THEN Str(JoinSp(Tail(parts)))
                                   ELSE identity[f]
                              [] OTHER -> identity[f]]

\* setIdentityStorage(data): JSON.stringify leaves undefined properties out
setIdentityStorage(st, data) ==
    IF access \in {"denied", "full"} THEN st
    ELSE [st EXCEPT ![KeyIdentity] =
            IdItem("json", [f \in DataFields |-> IF f \in IdFields THEN data[f] ELSE Missing])]

\* the own properties of an updates object
Given(updates) == {f \in IdFields : updates[f] # NotGiven}

\* the value setIdentity stores for key k of the updates
valueToStore(k, val) ==
    IF k = "class_code"
    THEN (IF isValidClassCode(normalizeClassCode(val))
          THEN Str(normalizeClassCode(val)) ELSE EmptyStr)
    ELSE val

\* setIdentity that writes the record whenever updates has a property
setIdentityAlwaysWrites(st, updates) ==
    LET current == getIdentityStorage(st)
        new == [f \in IdFields |->
                  IF f \in Given(updates) THEN valueToStore(f, updates[f]) ELSE current[f]]
    IN  [ret |-> new,
         store |-> IF Given(updates) # {} THEN setIdentityStorage(st, new) ELSE st]

\* setIdentity(updates): the object returned and the store afterwards
setIdentity(st, updates) ==
    LET current == getIdentityStorage(st)
        new == [f \in IdFields |->
                  IF f \in Given(updates) THEN valueToStore(f, updates[f]) ELSE current[f]]
        changed == \E f \in Given(updates) : current[f] # valueToStore(f, updates[f])
    IN  [ret |-> new,
         store |-> IF changed THEN setIdentityStorage(st, new) ELSE st]

\* --- identity inputs
Ann == <<"A", "n", "n">>
Lee == <<"L", "e", "e">>
LeeRoy == <<"L", "e", "e", " ", "R", "o", "y">>
\* " Ann  Lee\tRoy "
LegacyName == <<" ", "A", "n", "n", " ", " ", "L", "e", "e", "\t", "R", "o", "y", " ">>
ValidCode == <<"A", "B", "3", "T", "-", "7", "X", "Y", "Z">>
\* a code of boundary characters: H J N P Z 2 9
EdgeCode == <<"H", "J", "N", "P", "-", "Z", "2", "9", "2">>

\* class_code arguments
CodeInputs ==
    {Str(<<"a", "b", "3", "t", "-", "7", "x", "y", "z">>),
     Str(<<" ", "a", "b", "3", "t", " ", "-", "7", "x", "y", "z", " ">>),
     Str(<<" ", "a", "b", "-", "c", "d", "-", "e", "f", " ">>),
     Str(ValidCode),
     Str(EdgeCode),
     Str(<<"A", "B", "3", "T", "-", "7", "X", "Y", "I">>),
     Str(<<"O", "B", "3", "T", "-", "7", "X", "Y", "Z">>),
     Str(<<"A", "B", "3", "0", "-", "7", "X", "Y", "Z">>),
     Str(<<"A", "B", "3", "T", "-", "1", "X", "Y", "Z">>),
     Str(<<"A", "B", "3", "T", "7", "X", "Y", "Z">>),
     Str(<<"A", "B", "3", "T", "-", "7", "X", "Y", "Z", "9">>),
     EmptyStr, NumberFive, Missing}
FirstInputs == {Str(Ann), EmptyStr}
LastInputs == {Str(Lee), Str(LeeRoy)}
IdentityUpdates ==
    [first_name : FirstInputs \cup {NotGiven},
     last_name : LastInputs \cup {NotGiven},
     class_code : CodeInputs \cup {NotGiven}]
NoUpdates == [f \in IdFields |-> NotGiven]

\* identity data a page may find: none, unparseable, null, a split record
\* with a valid code, a legacy record with a combined name only
SplitData ==
    [f \in DataFields |->
        CASE f = "first_name" -> Str(Ann)
          [] f = "last_name" -> Str(Lee)
          [] f = "class_code" -> Str(ValidCode)
          [] OTHER -> Missing]
LegacyData == [f \in DataFields |-> IF f = "student_name" THEN Str(LegacyName) ELSE Missing]
IdentityItems ==
    {IdItem("none", NoData), IdItem("garbage", NoData), IdItem("jsonNull", NoData),
     IdItem("json", SplitData), IdItem("json", LegacyData)}

\* --- score discovery (src/unnamed/part_001) and the observer's parse
Digits == <<"0", "1", "2", "3", "4", "5", "6", "7", "8", "9">>
IsDigit(c) == \E i \in 1..10 : Digits[i] = c
DigitVal(c) == (CHOOSE i \in 1..10 : Digits[i] = c) - 1
\* parseInt(s, 10) of a run of digits
RECURSIVE ParseInt(_)
ParseInt(s) ==
    IF s = <<>> THEN 0
    ELSE 10 * ParseInt(SubSeq(s, 1, Len(s) - 1)) + DigitVal(s[Len(s)])
ToLowerChar(c) ==
    IF \E i \in 1..26 : UpperCase[i] = c
    THEN LowerCase[CHOOSE i \in 1..26 : UpperCase[i] = c] ELSE c
\* s.toLowerCase()
ToLowerCase(s) == [i \in 1..Len(s) |-> ToLowerChar(s[i])]
\* s.indexOf(w) !== -1
Contains(s, w) ==
    \E i \in 1..(Len(s) - Len(w) + 1) : SubSeq(s, i, i + Len(w) - 1) = w
ScoreWord == <<"s", "c", "o", "r", "e">>

\* the first position at or after i of text t that holds no digit
RECURSIVE DigitsEnd(_, _)
DigitsEnd(t, i) == IF i <= Len(t) /\ IsDigit(t[i]) THEN DigitsEnd(t, i + 1) ELSE i
\* the first position at or after i of text t that holds no whitespace
RECURSIVE SpacesEnd(_, _)
SpacesEnd(t, i) == IF i <= Len(t) /\ IsSpace(t[i]) THEN SpacesEnd(t, i + 1) ELSE i

NoMatch == [ok |-> FALSE, score |-> 0, max |-> 0]
\* /(\d+)\s*\/\s*(\d+)/ matched at position i of text t: the two groups
\* through parseInt.  Each quantifier is greedy and what follows it cannot
\* start with a character it consumes, so there is no backtracking.
MatchAt(t, i) ==
    LET j == DigitsEnd(t, i)
        k == SpacesEnd(t, j)
        l == SpacesEnd(t, k + 1)
        e == DigitsEnd(t, l)
    IN  IF j > i /\ k <= Len(t) /\ t[k] = "/" /\ e > l
        THEN [ok |-> TRUE, score |-> ParseInt(SubSeq(t, i, j - 1)),
              max |-> ParseInt(SubSeq(t, l, e - 1))]
        ELSE NoMatch
\* txt.match(/(\d+)\s*\/\s*(\d+)/): the leftmost match, searched from i
RECURSIVE FirstMatch(_, _)
FirstMatch(t, i) ==
    IF i > Len(t) THEN NoMatch
    ELSE IF MatchAt(t, i).ok THEN MatchAt(t, i) ELSE FirstMatch(t, i + 1)

\* the largest denominator parseScoreText accepts
DenominatorLimit == 500

\* parseScoreText(txt): { score, max } or null (ok = FALSE)
parseScoreText(txt) ==
    LET match == FirstMatch(txt, 1)
    IN  IF txt = <<>> THEN NoMatch
        ELSE IF ~match.ok THEN NoMatch
        ELSE IF match.max <= 0 THEN NoMatch
        ELSE IF match.max > DenominatorLimit THEN NoMatch
        ELSE match

\* the parse of attachScoreObserver in the first module of src/v5/esheets.js:
\* the same pattern and no check of the denominator
parseScoreTextV5(txt) == FirstMatch(txt, 1)

\* an element: the quick-win selectors it matches (by their position in the
\* list), its rendered box and computed style, its textContent, and whether
\* it contains an input, button, select or textarea
Selectors == 1..7
Shown == [width |-> 10, height |-> 10, display |-> "block", visibility |-> "visible",
          opacity |-> "1"]
El(sels, box, text, controls) ==
    [sels |-> sels, width |-> box.width, height |-> box.height, display |-> box.display,
     visibility |-> box.visibility, opacity |-> box.opacity, text |-> text,
     controls |-> controls]

\* isVisible that does not look at the opacity
isVisibleOpaque(el) ==
    /\ el.width # 0 /\ el.height # 0
    /\ el.display # "none" /\ el.visibility # "hidden"

\* isVisible(el)
isVisible(el) ==
    /\ el.width # 0 /\ el.height # 0
    /\ el.display # "none" /\ el.visibility # "hidden" /\ el.opacity # "0"

\* document.querySelector(selector k): the first match in document order, 0
\* for null
QuerySelector(d, k) ==
    IF \E i \in 1..Len(d) : k \in d[i].sels
    THEN CHOOSE i \in 1..Len(d) : k \in d[i].sels /\ \A j \in 1..(i - 1) : k \notin d[j].sels
    ELSE 0

\* the quick wins of findScoreElement from selector k on: the first selector
\* whose first match is visible and parses
RECURSIVE QuickWin(_, _)
QuickWin(d, k) ==
    IF k \notin Selectors THEN 0
    ELSE LET el == QuerySelector(d, k)
         IN  IF el # 0 /\ isVisible(d[el]) /\ parseScoreText(d[el].text).ok THEN el
             ELSE QuickWin(d, k + 1)

\* the candidates of the heuristic search
Candidates(d) ==
    {i \in 1..Len(d) :
        LET txt == Trim(d[i].text)
        IN  /\ isVisible(d[i])
            /\ Len(txt) >= 3 /\ Len(txt) <= 80
            /\ Contains(ToLowerCase(txt), ScoreWord)
            /\ parseScoreText(txt).ok}
Penalty(el) == IF el.controls THEN 10 ELSE 0
\* a comparator that looks at the length only
SortsBeforeByLength(d, i, j) ==
    LET li == Len(Trim(d[i].text))
        lj == Len(Trim(d[j].text))
    IN  \/ li < lj
        \/ li = lj /\ i <= j

\* candidate i sorts before candidate j: by penalty, then by length; the
\* sort is stable, so equal candidates stay in document order
SortsBefore(d, i, j) ==
    LET pi == Penalty(d[i])
        pj == Penalty(d[j])
        li == Len(Trim(d[i].text))
        lj == Len(Trim(d[j].text))
    IN  \/ pi < pj
        \/ pi = pj /\ li < lj
        \/ pi = pj /\ li = lj /\ i <= j

\* findScoreElement(): an index into d, 0 for null
findScoreElement(d) ==
    IF QuickWin(d, 1) # 0 THEN QuickWin(d, 1)
    ELSE IF Candidates(d) = {} THEN 0
    ELSE CHOOSE i \in Candidates(d) : \A j \in Candidates(d) : SortsBefore(d, i, j)

\* a parse() that reports 0 / 1 for a text that does not parse
observerParseDefaults(l, txt) ==
    LET p == IF l = "auto" THEN parseScoreText(txt) ELSE parseScoreTextV5(txt)
    IN  IF p.ok THEN p ELSE [ok |-> TRUE, score |-> 0, max |-> 1]

\* the parse() of attachScoreObserver on text txt: part_001 (l = "auto"), or
\* the first module of src/v5/esheets.js
observerParse(l, txt) == IF l = "auto" THEN parseScoreText(txt) ELSE parseScoreTextV5(txt)

\* one run of parse() on text txt by the module tagged l whose
\* meta.worksheet_id is id: the store afterwards
parseRun(l, st, id, txt, now) ==
    LET p == observerParse(l, txt)
    IN  IF p.ok THEN setScoreImpl(l, st, id, JInt(p.score), JInt(p.max), now) ELSE st

\* n observers of one element run parse() one after the other
RECURSIVE parseRuns(_, _, _, _, _, _)
parseRuns(n, l, st, id, txt, now) ==
    IF n = 0 THEN st ELSE parseRuns(n - 1, l, parseRun(l, st, id, txt, now), id, txt, now)

\* --- texts and elements of the pages
\* "Score: 9/10"
TxtHidden ==
    <<"S", "c", "o", "r", "e", ":", " ", "9", "/", "1", "0">>
\* "Score: 7 / 10"
TxtVisible ==
    <<"S", "c", "o", "r", "e", ":", " ", "7", " ", "/", " ", "1", "0">>
\* "1/2 of students improved"
TxtFraction ==
    <<"1", "/", "2", " ", "o", "f", " ", "s", "t", "u", "d", "e", "n", "t", "s", " ", "i", "m",
      "p", "r", "o", "v", "e", "d">>
\* "Score 3/600 or 4/5"
TxtTwoPairs ==
    <<"S", "c", "o", "r", "e", " ", "3", "/", "6", "0", "0", " ", "o", "r", " ", "4", "/",
      "5">>
\* "Score: 3/0"
TxtZeroDen ==
    <<"S", "c", "o", "r", "e", ":", " ", "3", "/", "0">>
\* "SCORE 12/500"
TxtAtLimit ==
    <<"S", "C", "O", "R", "E", " ", "1", "2", "/", "5", "0", "0">>
\* "score 2/501"
TxtOverLimit ==
    <<"s", "c", "o", "r", "e", " ", "2", "/", "5", "0", "1">>
\* "Your score"
TxtNoPair ==
    <<"Y", "o", "u", "r", " ", "s", "c", "o", "r", "e">>
\* "7 / 10"
TxtBare ==
    <<"7", " ", "/", " ", "1", "0">>
\* "Score: 1/2"
TxtOne ==
    <<"S", "c", "o", "r", "e", ":", " ", "1", "/", "2">>
\* "Score: 2/2"
TxtFull ==
    <<"S", "c", "o", "r", "e", ":", " ", "2", "/", "2">>
\* a text of 81 characters: "Score: 1/2" and 71 more
TxtLong == TxtOne \o [i \in 1..71 |-> "x"]
Texts == {TxtHidden, TxtVisible, TxtFraction, TxtTwoPairs, TxtZeroDen, TxtAtLimit,
          TxtOverLimit, TxtNoPair, TxtBare, TxtOne, TxtFull, TxtLong}

ZeroWidth == [Shown EXCEPT !.width = 0]
ZeroHeight == [Shown EXCEPT !.height = 0]
DisplayNone == [Shown EXCEPT !.width = 0, !.height = 0, !.display = "none"]
Hidden == [Shown EXCEPT !.visibility = "hidden"]
Transparent == [Shown EXCEPT !.opacity = "0"]
\* the elements a page is made of
Elements ==
    {El({}, Shown, TxtVisible, FALSE), El({1}, Transparent, TxtHidden, FALSE),
     El({}, DisplayNone, TxtHidden, FALSE), El({}, Shown, TxtFraction, FALSE),
     El({1}, Shown, TxtBare, FALSE), El({}, Shown, TxtTwoPairs, FALSE),
     El({}, Shown, TxtAtLimit, TRUE), El({2}, Shown, TxtOverLimit, FALSE),
     El({}, ZeroWidth, TxtVisible, FALSE), El({}, Hidden, TxtHidden, FALSE),
     El({}, Shown, TxtLong, FALSE), El({6}, Shown, TxtNoPair, FALSE),
     El({}, ZeroHeight, TxtAtLimit, FALSE), El({2}, Shown, TxtZeroDen, FALSE),
     El({}, Shown, TxtOne, FALSE)}
\* the documents of at most n elements
Doms(n) == UNION {[1..k -> Elements] : k \in 0..n}

\* --- the tracking adapter's payload
\* the payload object of submit, built after saveRecord returned (st is the
\* store then); payload.meta is the worksheet's meta block and is left out
adapterPayload(st, id, score, maxScore, now) ==
    LET s == MathMax(0, score)
        m == MathMax(1, maxScore)
    IN  [worksheet_id |-> id, score |-> s, maxScore |-> m, percent |-> PercentV5(s, m),
         submittedAt |-> now, identity |-> getIdentityStorage(st)]
NoPayload ==
    [worksheet_id |-> "undefined", score |-> Undef, maxScore |-> Undef, percent |-> Undef,
     submittedAt |-> Undef, identity |-> DefaultIdentity]
NoLog == [n |-> 0, payload |-> NoPayload]

\* the adapter invocations of one submit(score, maxScore) of canonical v5:
\* none when submit returns early, when saveRecord throws or when no function
\* is installed; the adapter that calls submit again is invoked by that
\* submit a second time
adapterCalls(st, mounted, id, score, maxScore, now, adapter) ==
    LET saved == submit(st, mounted, id, score, maxScore, now)
    IN  IF adapter = "none" \/ ~submitGuardV5(mounted, id, score, maxScore)
           \/ saveRecordThrows("v5", st, id)
        THEN NoLog
        ELSE IF adapterResubmits(adapter, score)
        THEN [n |-> 2,
              payload |-> adapterPayload(adapterRun(adapter, saved, mounted, id, score, now),
                                         id, ResubmitPair[1], ResubmitPair[2], now)]
        ELSE [n |-> 1, payload |-> adapterPayload(saved, id, score, maxScore, now)]

\* ------------------------------------------------------------ inputs
Libs == {"v5", "v51", "auto"}

\* (score, max) arguments: a small grid with a negative score, scores above
\* the denominator and a zero denominator, the pairs of the documented
\* examples, a near-tie pair (1/400 = 0.25 %, 2/801 = 0.2497 %), and
\* arguments that are not numbers
SmallPairs == {<<JInt(a), JInt(b)>> : a \in -1..MaxScoreArg, b \in {0, 1}}
ExamplePairs == {<<JInt(8), JInt(10)>>, <<JInt(9), JInt(10)>>, <<JInt(4), JInt(5)>>,
                 <<JInt(5), JInt(5)>>, <<JInt(1), JInt(400)>>, <<JInt(2), JInt(801)>>}
NumberPairs == SmallPairs \cup ExamplePairs
BadPairs == {<<NaN, JInt(5)>>, <<JInt(3), NaN>>, <<JStr, JInt(5)>>, <<JInt(3), JStr>>}
Pairs == NumberPairs \cup BadPairs
\* arguments of the setScore that only rewrites the placeholders
UiPairs == {<<JInt(1), JInt(2)>>, <<NaN, JInt(5)>>}

\* how the arguments of a call look to the argument checks
ArgKind(score, maxScore) ==
    IF ~(TypeofNumber(score) /\ TypeofNumber(maxScore)) THEN "nonnumber"
    ELSE IF IsNaN(score) \/ IsNaN(maxScore) THEN "nan" ELSE "numbers"

\* a table left under esheets:v1:progress by a build with the attempts layout
LegacyTable ==
    [i \in {"w1"} |->
        [f \in Fields |->
            CASE f = "bestScore" -> JInt(4)
              [] f = "maxScore" -> JInt(5)
              [] f = "bestPercent" -> JInt(80)
              [] f = "attempts" -> JInt(1)
              [] f = "lastAttemptAt" -> JTime(0)
              [] f = "completedAt" -> Null
              [] OTHER -> Undef]]

\* a table left under esheets:v5:progress by canonical v5
V5Table ==
    [i \in {"w2"} |->
        [f \in Fields |->
            CASE f \in {"bestScore", "lastScore"} -> JInt(1)
              [] f = "maxScore" -> JInt(2)
              [] f \in {"bestPercent", "lastPercent"} -> JInt(50)
              [] f = "submittedAt" -> JTime(0)
              [] OTHER -> Undef]]

NoCall == [op |-> "none", a |-> Undef, b |-> Undef, id |-> "undefined"]
NoRet == [present |-> FALSE, rec |-> EmptyRecord]
NoText == <<Undef, Undef, Undef>>
\* an updates object with no property
NoFields == [f \in {} |-> Undef]
\* a document with no element, no pending callback and no observer
NoPage ==
    /\ dom = <<>>
    /\ found = 0
    /\ timers = 0
    /\ observers = <<>>
    /\ parseLog = <<>>
    /\ pending = 0
    /\ holder = "apart"
    /\ buttons = <<>>
    /\ fired = <<>>
\* no second tab
NoTab ==
    /\ tabPc = "idle"
    /\ tabSnap = EmptyTable
    /\ tabArg = NoCall
\* the operation calls no adapter and runs no observer callback
NoCallbacks ==
    /\ adapterLog' = NoLog
    /\ parseLog' = <<>>

\* the best raw score on record for id i in store st as build l reads it
BestScoreOf(l, st, i) == OrZero(RecordOrFallback(l, st, i)["bestScore"]).n

Init ==
    /\ access = "ok"
    /\ lib \in Libs
    /\ hasRoot \in (IF lib = "v5" THEN BOOLEAN ELSE {TRUE})
    /\ \E v1 \in {NoItem, JsonItem(LegacyTable)} :
       \E v5 \in (IF lib = "v5" THEN {NoItem, JsonItem(V5Table)} ELSE {NoItem}) :
          store = [k \in Keys |-> IF k = KeyV1 THEN v1 ELSE IF k = KeyV5 THEN v5 ELSE NoItem]
    /\ meta = "undefined"
    /\ meta1 = "undefined"
    /\ isMounted = FALSE
    /\ scoreText = NoText
    /\ clock = 1
    /\ lastCall = NoCall
    /\ ret = NoRet
    /\ maxRaw = [i \in Ids |-> BestScoreOf(lib, store, i)]
    /\ threw = FALSE
    /\ trackingAdapter = "none"
    /\ idArg = NoUpdates
    /\ idRet = DefaultIdentity
    /\ adapterLog = NoLog
    /\ NoPage
    /\ NoTab
    /\ upArg = NoFields

\* ------------------------------------------------------------ operations
\* the clock ticks when the store was written
Tick == clock' = IF store' # store THEN clock + 1 ELSE clock

\* maxRaw after an accepted observation (score, maxScore) for id
Observe(id, score) ==
    LET s == MathMax(0, score)
    IN  IF id \in Ids /\ IsNum(s) /\ s.n > maxRaw[id]
        THEN [maxRaw EXCEPT ![id] = s.n] ELSE maxRaw

\* init(options), options.worksheet_id = id (possibly missing or empty).
\* A page belongs to one worksheet: once it has written progress it calls
\* init again only with the id it has.  Every init of part_001 defers one
\* autoAttachScoreObserver with setTimeout; on a document with no element the
\* callback finds nothing and does nothing, and is not kept.
InitCall(id) ==
    /\ clock = 1 \/ id = meta
    /\ lib = "auto" => timers < MaxTimers
    /\ timers' = (IF lib = "auto" /\ dom # <<>> THEN timers + 1 ELSE timers)
    /\ lastCall' = [op |-> "init", a |-> Undef, b |-> Undef, id |-> id]
    /\ ret' = NoRet
    /\ IF lib = "v5" /\ ~hasRoot
       THEN UNCHANGED <<meta, isMounted>>
       ELSE /\ meta' = id
            /\ isMounted' = (IF lib = "v5" THEN TRUE ELSE isMounted)
    /\ threw' = FALSE
    /\ UNCHANGED <<lib, hasRoot, store, meta1, scoreText, clock, maxRaw, access, trackingAdapter>>
    /\ UNCHANGED identityVars
    /\ NoCallbacks
    /\ UNCHANGED <<dom, found, observers, tabVars, upArg, pending, holder, resetVars>>

\* a setScore that runs setScoreImpl in every build
SetScoreStoring(score, maxScore) ==
    /\ clock <= MaxClock
    /\ lastCall' = [op |-> "setScore", a |-> score, b |-> maxScore, id |-> meta]
    /\ ret' = NoRet
    /\ IF ~ValidNumbers(score, maxScore)
       THEN UNCHANGED <<scoreText, store, maxRaw>>
       ELSE /\ scoreText' = ScoreTextOf(MathMax(0, score), MathMax(1, maxScore),
                                        Percent(MathMax(0, score), MathMax(1, maxScore)))
            /\ store' = setScoreImpl("auto", store, meta, score, maxScore, JTime(clock))
            /\ maxRaw' = (IF IdFalsy(meta) THEN maxRaw ELSE Observe(meta, score))
    /\ threw' = (ValidNumbers(score, maxScore) /\ saveRecordThrows("auto", store, meta))
    /\ Tick
    /\ UNCHANGED <<lib, hasRoot, meta, meta1, isMounted, access, trackingAdapter>>
    /\ UNCHANGED identityVars
    /\ NoCallbacks
    /\ UNCHANGED <<pageVars, tabVars, upArg>>

\* setScore(score, maxScore): canonical v5 and v5.1 update the placeholders
\* only; part_001 runs setScoreImpl
SetScore(score, maxScore) ==
    /\ clock <= MaxClock
    /\ lastCall' = [op |-> "setScore", a |-> score, b |-> maxScore, id |-> meta]
    /\ ret' = NoRet
    /\ LET s == MathMax(0, score)
           m == MathMax(1, maxScore)
       IN  IF (lib = "v5" /\ ~isMounted) \/ ~ValidNumbers(score, maxScore)
           THEN UNCHANGED <<scoreText, store, maxRaw>>
           ELSE IF lib = "v5"
           THEN /\ scoreText' = (IF hasRoot THEN ScoreTextOf(s, m, PercentV5(s, m)) ELSE scoreText)
                /\ UNCHANGED <<store, maxRaw>>
           ELSE IF lib = "v51"
           THEN /\ scoreText' = ScoreTextOf(s, m, Percent(s, m))
                /\ UNCHANGED <<store, maxRaw>>
           ELSE /\ scoreText' = ScoreTextOf(s, m, Percent(s, m))
                /\ store' = setScoreImpl("auto", store, meta, score, maxScore, JTime(clock))
                /\ maxRaw' = (IF IdFalsy(meta) THEN maxRaw ELSE Observe(meta, score))
    /\ threw' = (lib = "auto" /\ ValidNumbers(score, maxScore)
                     /\ saveRecordThrows("auto", store, meta))
    /\ Tick
    /\ UNCHANGED <<lib, hasRoot, meta, meta1, isMounted, access, trackingAdapter>>
    /\ UNCHANGED identityVars
    /\ NoCallbacks
    /\ UNCHANGED <<pageVars, tabVars, upArg>>

\* submit(score, maxScore): canonical v5 and v5.1
Submit(score, maxScore) ==
    /\ lib \in {"v5", "v51"}
    /\ clock <= MaxClock
    /\ lastCall' = [op |-> "submit", a |-> score, b |-> maxScore, id |-> meta]
    /\ ret' = NoRet
    /\ IF lib = "v5"
       THEN LET out == submitOutcome(store, isMounted, meta, score, maxScore,
                                     JTime(clock), trackingAdapter)
            IN  /\ store' = out.store
                /\ threw' = out.threw
                /\ maxRaw' = (IF submitGuardV5(isMounted, meta, score, maxScore)
                              THEN Observe(meta, score) ELSE maxRaw)
       ELSE /\ store' = submitV51(store, meta, score, maxScore, JTime(clock))
            /\ threw' = (submitGuardV51(meta, score, maxScore)
                             /\ saveRecordThrows("v51", store, meta))
            /\ maxRaw' = (IF submitGuardV51(meta, score, maxScore)
                          THEN Observe(meta, score) ELSE maxRaw)
    /\ Tick
    /\ UNCHANGED <<lib, hasRoot, meta, meta1, isMounted, scoreText, access, trackingAdapter>>
    /\ UNCHANGED identityVars
    /\ adapterLog' = (IF lib = "v5"
                      THEN adapterCalls(store, isMounted, meta, score, maxScore, JTime(clock),
                                        trackingAdapter)
                      ELSE NoLog)
    /\ parseLog' = <<>>
    /\ UNCHANGED <<pageVars, tabVars, upArg>>

\* newAttempt(): part_001, and the first module of src/v5/esheets.js (which
\* reads its own meta and its own storage key)
NewAttempt ==
    /\ lib \in {"v5", "auto"}
    /\ clock <= MaxClock
    /\ lastCall' = [op |-> "newAttempt", a |-> Undef, b |-> Undef,
                    id |-> IF lib = "v5" THEN meta1 ELSE meta]
    /\ ret' = NoRet
    /\ store' = (IF lib = "v5" THEN newAttempt("m1", store, meta1, JTime(clock))
                 ELSE newAttempt("auto", store, meta, JTime(clock)))
    /\ threw' = (IF lib = "v5" THEN saveRecordThrows("m1", store, meta1)
                 ELSE saveRecordThrows("auto", store, meta))
    /\ Tick
    /\ UNCHANGED <<lib, hasRoot, meta, meta1, isMounted, scoreText, maxRaw, access,
                   trackingAdapter>>
    /\ UNCHANGED identityVars
    /\ NoCallbacks
    /\ UNCHANGED <<pageVars, tabVars, upArg>>

\* getProgress that writes the table it read under the current key
GetProgressMigrates(id) ==
    /\ lib = "auto" \/ id = meta
    /\ lastCall' = [op |-> "getProgress", a |-> Undef, b |-> Undef, id |-> id]
    /\ threw' = getRecordThrows(lib, store, id)
    /\ ret' = (IF threw' THEN NoRet ELSE getRecord(lib, store, id))
    /\ store' = setStorage(lib, store, Load(lib, store))
    /\ UNCHANGED <<lib, hasRoot, meta, meta1, isMounted, scoreText, clock, maxRaw,
                   access, trackingAdapter>>
    /\ UNCHANGED identityVars
    /\ NoCallbacks
    /\ UNCHANGED <<pageVars, tabVars, upArg>>

\* getProgress: part_001 takes the id; canonical v5 and v5.1 read
\* meta.worksheet_id
GetProgress(id) ==
    /\ lib = "auto" \/ id = meta
    /\ lastCall' = [op |-> "getProgress", a |-> Undef, b |-> Undef, id |-> id]
    /\ threw' = getRecordThrows(lib, store, id)
    /\ ret' = (IF threw' THEN NoRet ELSE getRecord(lib, store, id))
    /\ UNCHANGED <<lib, hasRoot, store, meta, meta1, isMounted, scoreText, clock, maxRaw,
                   access, trackingAdapter>>
    /\ UNCHANGED identityVars
    /\ NoCallbacks
    /\ UNCHANGED <<pageVars, tabVars, upArg>>

\* setTrackingAdapter(fn) of canonical v5; fn is a function that returns, a
\* function that throws, or not a function
SetTrackingAdapter(fn) ==
    /\ lib = "v5"
    /\ lastCall' = [op |-> "setTrackingAdapter", a |-> Undef, b |-> Undef, id |-> meta]
    /\ ret' = NoRet
    /\ threw' = FALSE
    /\ trackingAdapter' = (IF fn \in {"ok", "throws", "resubmits"} THEN fn
                           ELSE trackingAdapter)
    /\ UNCHANGED <<lib, hasRoot, store, meta, meta1, isMounted, scoreText, clock, maxRaw, access>>
    /\ UNCHANGED identityVars
    /\ NoCallbacks
    /\ UNCHANGED <<pageVars, tabVars, upArg>>

\* n observers of one element run parse() on its text txt: what the runs
\* leave in the store and the placeholders.  parse belongs to part_001, or to
\* the first module of src/v5/esheets.js with that module's meta.
ParseEffect(n, txt) ==
    LET l == IF lib = "auto" THEN "auto" ELSE "m1"
        id == IF lib = "auto" THEN meta ELSE meta1
        p == observerParse(l, txt)
        s == MathMax(0, JInt(p.score))
        m == MathMax(1, JInt(p.max))
    IN  /\ parseLog' = [k \in 1..n |-> p]
        /\ store' = parseRuns(n, l, store, id, txt, JTime(clock))
        /\ scoreText' = (IF n > 0 /\ p.ok THEN ScoreTextOf(s, m, Percent(s, m)) ELSE scoreText)
        /\ maxRaw' = (IF n > 0 /\ p.ok /\ ~IdFalsy(id) THEN Observe(id, JInt(p.score))
                      ELSE maxRaw)
        /\ threw' = (n > 0 /\ p.ok /\ saveRecordThrows(l, store, id))
        /\ Tick

\* attachScoreObserver(element i): parse() once, then one more
\* MutationObserver on the element
Attach(i) ==
    /\ observers' = [observers EXCEPT ![i] = @ + 1]
    /\ ParseEffect(1, dom[i].text)

\* a deferred callback of init runs: autoAttachScoreObserver()
RunTimer ==
    /\ lib = "auto"
    /\ timers > 0
    /\ clock <= MaxClock
    /\ findScoreElement(dom) # 0 => observers[findScoreElement(dom)] < MaxTimers
    /\ timers' = timers - 1
    /\ lastCall' = [op |-> "timer", a |-> Undef, b |-> Undef, id |-> meta]
    /\ ret' = NoRet
    /\ IF findScoreElement(dom) = 0
       THEN /\ parseLog' = <<>>
            /\ threw' = FALSE
            /\ UNCHANGED <<store, scoreText, maxRaw, observers, clock>>
       ELSE Attach(findScoreElement(dom))
    /\ adapterLog' = NoLog
    /\ UNCHANGED <<lib, hasRoot, meta, meta1, isMounted, access, trackingAdapter, dom, found,
                   pending, holder>>
    /\ UNCHANGED <<identityVars, tabVars, upArg, resetVars>>

\* attachScoreObserver(element), the element being dom[i]: part_001 and the
\* first module of src/v5/esheets.js
AttachScoreObserver(i) ==
    /\ lib \in {"v5", "auto"}
    /\ clock <= MaxClock
    /\ observers[i] < MaxTimers
    /\ lastCall' = [op |-> "attachScoreObserver", a |-> JInt(i), b |-> Undef,
                    id |-> IF lib = "v5" THEN meta1 ELSE meta]
    /\ ret' = NoRet
    /\ Attach(i)
    /\ adapterLog' = NoLog
    /\ UNCHANGED <<lib, hasRoot, meta, meta1, isMounted, access, trackingAdapter, dom, found,
                   timers, pending, holder>>
    /\ UNCHANGED <<identityVars, tabVars, upArg, resetVars>>

\* the page's own script replaces the text of element i by txt; every
\* observer of the element then runs parse()
Mutate(i, txt) ==
    /\ clock <= MaxClock
    /\ txt # dom[i].text
    /\ dom' = [dom EXCEPT ![i].text = txt]
    /\ lastCall' = [op |-> "mutation", a |-> JInt(i), b |-> Undef,
                    id |-> IF lib = "v5" THEN meta1 ELSE meta]
    /\ ret' = NoRet
    /\ ParseEffect(observers[i], txt)
    /\ adapterLog' = NoLog
    /\ UNCHANGED <<lib, hasRoot, meta, meta1, isMounted, access, trackingAdapter, found,
                   timers, observers, pending, holder>>
    /\ UNCHANGED <<identityVars, tabVars, upArg, resetVars>>

\* findScoreElement() of part_001
FindScoreElement ==
    /\ lib = "auto"
    /\ lastCall' = [op |-> "findScoreElement", a |-> Undef, b |-> Undef, id |-> meta]
    /\ ret' = NoRet
    /\ found' = findScoreElement(dom)
    /\ threw' = FALSE
    /\ NoCallbacks
    /\ UNCHANGED <<lib, hasRoot, store, meta, meta1, isMounted, scoreText, clock, maxRaw,
                   access, trackingAdapter, dom, timers, observers, pending, holder>>
    /\ UNCHANGED <<identityVars, tabVars, upArg, resetVars>>

Next ==
    \/ \E id \in Ids \cup NoIds : InitCall(id)
    \/ \E p \in (IF lib = "auto" THEN Pairs ELSE UiPairs) : SetScore(p[1], p[2])
    \/ \E p \in Pairs : Submit(p[1], p[2])
    \/ NewAttempt
    \/ \E id \in Ids \cup NoIds : GetProgress(id)

Spec == Init /\ [][Next]_vars

\* --- faults: storage that is corrupt, unreadable or unwritable, and a
\* tracking adapter that throws
\* the items a page may find under the key its build reads
FaultItems == {NoItem, GarbageItem, JsonNullItem, JsonPrimItem, JsonArrayItem,
               JsonItem(LegacyTable)}
FaultPairs == {<<JInt(1), JInt(2)>>, <<JInt(2), JInt(2)>>, <<NaN, JInt(5)>>}

FaultInit ==
    /\ access \in {"ok", "denied", "full"}
    /\ lib \in Libs
    /\ hasRoot = TRUE
    /\ \E it \in FaultItems :
          store = [k \in Keys |-> IF k = StorageKey(lib) THEN it ELSE NoItem]
    /\ meta = "undefined"
    /\ meta1 = "undefined"
    /\ isMounted = FALSE
    /\ scoreText = NoText
    /\ clock = 1
    /\ lastCall = NoCall
    /\ ret = NoRet
    /\ maxRaw = [i \in Ids |-> BestScoreOf(lib, store, i)]
    /\ threw = FALSE
    /\ trackingAdapter = "none"
    /\ idArg = NoUpdates
    /\ idRet = DefaultIdentity
    /\ adapterLog = NoLog
    /\ NoPage
    /\ NoTab
    /\ upArg = NoFields

FaultNext ==
    \/ \E id \in Ids \cup NoIds : InitCall(id)
    \/ \E p \in FaultPairs : SetScore(p[1], p[2])
    \/ \E p \in FaultPairs : Submit(p[1], p[2])
    \/ NewAttempt
    \/ \E id \in Ids \cup NoIds : GetProgress(id)
    \/ \E fn \in {"ok", "throws", "resubmits", "notAFunction"} : SetTrackingAdapter(fn)

FaultSpec == FaultInit /\ [][FaultNext]_vars

TypeOK ==
    /\ lib \in Libs \cup {"v2", "p2"}
    /\ meta \in Ids \cup NoIds
    /\ clock \in 1..(MaxClock + 1)
    /\ \A k \in Keys : store[k].kind \in ItemKinds
    /\ access \in {"ok", "denied", "full", "unreadable"}
    /\ threw \in BOOLEAN
    /\ trackingAdapter \in {"none", "ok", "throws", "resubmits"}
    /\ adapterLog.n \in 0..2
    /\ tabPc \in {"idle", "loaded"}
    /\ timers \in 0..MaxTimers
    /\ found \in 0..Len(dom)
    /\ DOMAIN observers = DOMAIN dom
    /\ \A i \in DOMAIN observers : observers[i] \in 0..MaxTimers
    /\ pending \in 0..MaxTimers
    /\ holder \in {"apart", "self", "inside"}
    /\ \A b \in DOMAIN buttons : buttons[b].text \in {"original", "armed"}
    /\ DOMAIN fired = DOMAIN buttons

\* --- identity operations
IdentityInit ==
    /\ access = "ok"
    /\ lib = "v5"
    /\ hasRoot = TRUE
    /\ \E it \in IdentityItems :
          store = [k \in Keys |-> IF k = KeyIdentity THEN it ELSE NoItem]
    /\ meta = "undefined"
    /\ meta1 = "undefined"
    /\ isMounted = FALSE
    /\ scoreText = NoText
    /\ clock = 1
    /\ lastCall = NoCall
    /\ ret = NoRet
    /\ maxRaw = [i \in Ids |-> 0]
    /\ threw = FALSE
    /\ trackingAdapter = "none"
    /\ idArg = NoUpdates
    /\ idRet = DefaultIdentity
    /\ adapterLog = NoLog
    /\ NoPage
    /\ NoTab
    /\ upArg = NoFields

\* getIdentity that saves what it derived
GetIdentityPersists ==
    /\ lib = "v5"
    /\ lastCall' = [op |-> "getIdentity", a |-> Undef, b |-> Undef, id |-> meta]
    /\ idArg' = NoUpdates
    /\ idRet' = getIdentityStorage(store)
    /\ store' = setIdentityStorage(store, getIdentityStorage(store))
    /\ threw' = FALSE
    /\ UNCHANGED <<lib, access>>
    /\ UNCHANGED progressVars
    /\ NoCallbacks
    /\ UNCHANGED <<pageVars, tabVars, upArg>>

\* getIdentity()
GetIdentity ==
    /\ lib = "v5"
    /\ lastCall' = [op |-> "getIdentity", a |-> Undef, b |-> Undef, id |-> meta]
    /\ idArg' = NoUpdates
    /\ idRet' = getIdentityStorage(store)
    /\ threw' = FALSE
    /\ UNCHANGED <<lib, store, access>>
    /\ UNCHANGED progressVars
    /\ NoCallbacks
    /\ UNCHANGED <<pageVars, tabVars, upArg>>

\* setIdentity(updates)
SetIdentity(updates) ==
    /\ lib = "v5"
    /\ lastCall' = [op |-> "setIdentity", a |-> Undef, b |-> Undef, id |-> meta]
    /\ idArg' = updates
    /\ idRet' = setIdentity(store, updates).ret
    /\ store' = setIdentity(store, updates).store
    /\ threw' = FALSE
    /\ UNCHANGED <<lib, access>>
    /\ UNCHANGED progressVars
    /\ NoCallbacks
    /\ UNCHANGED <<pageVars, tabVars, upArg>>

IdentityNext ==
    \/ GetIdentity
    \/ \E u \in IdentityUpdates : SetIdentity(u)

IdentitySpec == IdentityInit /\ [][IdentityNext]_vars

\* --- the record store by itself: reads, and saveRecord applied to partial
\* updates
\* the default record of build l
DefaultOf(l) == IF l = "auto" THEN DefaultRecordV1 ELSE DefaultRecord
\* updates objects: none, those of newAttempt, of a new best, of a commit
AttemptFields ==
    [f \in {"attempts", "lastAttemptAt", "completedAt"} |->
        CASE f = "attempts" -> JInt(3)
          [] f = "lastAttemptAt" -> JTime(1)
          [] f = "completedAt" -> Null]
BestFields ==
    [f \in {"bestScore", "maxScore", "bestPercent"} |->
        CASE f = "bestScore" -> JInt(2)
          [] f = "maxScore" -> JInt(2)
          [] f = "bestPercent" -> JInt(100)]
CommitFields ==
    [f \in {"lastScore", "lastPercent", "submittedAt", "maxScore"} |->
        CASE f = "lastScore" -> JInt(1)
          [] f = "lastPercent" -> JInt(50)
          [] f = "submittedAt" -> JTime(1)
          [] f = "maxScore" -> JInt(2)]
UpsertUpdates == {NoFields, AttemptFields, BestFields, CommitFields}

StoreInit ==
    /\ access = "ok"
    /\ lib \in Libs
    /\ hasRoot = TRUE
    /\ \E v1 \in {NoItem, JsonItem(LegacyTable)} :
       \E v5 \in (IF lib = "v5" THEN {NoItem, JsonItem(V5Table)} ELSE {NoItem}) :
       \E it \in (IF lib = "v5" THEN {IdItem("none", NoData), IdItem("json", LegacyData)}
                  ELSE {IdItem("none", NoData)}) :
          store = [k \in Keys |-> IF k = KeyV1 THEN v1 ELSE IF k = KeyV5 THEN v5 ELSE it]
    /\ meta = "undefined"
    /\ meta1 = "undefined"
    /\ isMounted = FALSE
    /\ scoreText = NoText
    /\ clock = 1
    /\ lastCall = NoCall
    /\ ret = NoRet
    /\ maxRaw = [i \in Ids |-> 0]
    /\ threw = FALSE
    /\ trackingAdapter = "none"
    /\ idArg = NoUpdates
    /\ idRet = DefaultIdentity
    /\ adapterLog = NoLog
    /\ NoPage
    /\ NoTab
    /\ upArg = NoFields

\* saveRecord(id, updates) called by itself; what it returns is the record
\* it built, undefined without an id
SaveRecord(id, updates) ==
    /\ clock <= MaxClock
    /\ lastCall' = [op |-> "saveRecord", a |-> Undef, b |-> Undef, id |-> id]
    /\ upArg' = updates
    /\ store' = saveRecord(lib, DefaultOf(lib), store, id, updates)
    /\ ret' = (IF IdFalsy(id) THEN NoRet
               ELSE [present |-> TRUE,
                     rec |-> MergedRecord(DefaultOf(lib), Load(lib, store), id, updates)])
    /\ threw' = saveRecordThrows(lib, store, id)
    /\ Tick
    /\ NoCallbacks
    /\ UNCHANGED <<lib, hasRoot, meta, meta1, isMounted, scoreText, maxRaw, access,
                   trackingAdapter>>
    /\ UNCHANGED <<identityVars, pageVars, tabVars>>

StoreNext ==
    \/ \E id \in Ids \cup NoIds : InitCall(id)
    \/ \E id \in Ids \cup NoIds : GetProgress(id)
    \/ GetIdentity
    \/ \E id \in Ids \cup {""} : \E u \in UpsertUpdates : SaveRecord(id, u)

StoreSpec == StoreInit /\ [][StoreNext]_vars

\* --- two tabs of canonical v5 on one origin: this page, initialised on w1,
\* and a second tab whose submit may be cut between the read and the write
\* of its saveRecord
TabPairs == {<<JInt(1), JInt(2)>>, <<JInt(2), JInt(2)>>}

TabInit ==
    /\ access = "ok"
    /\ lib = "v5"
    /\ hasRoot = TRUE
    /\ \E v5 \in {NoItem, JsonItem(V5Table)} :
          store = [k \in Keys |-> IF k = KeyV5 THEN v5 ELSE NoItem]
    /\ meta = "w1"
    /\ meta1 = "undefined"
    /\ isMounted = TRUE
    /\ scoreText = NoText
    /\ clock = 1
    /\ lastCall = NoCall
    /\ ret = NoRet
    /\ maxRaw = [i \in Ids |-> BestScoreOf(lib, store, i)]
    /\ threw = FALSE
    /\ trackingAdapter = "none"
    /\ idArg = NoUpdates
    /\ idRet = DefaultIdentity
    /\ adapterLog = NoLog
    /\ NoPage
    /\ NoTab
    /\ upArg = NoFields

\* the second tab, initialised on worksheet id, runs submit(score, maxScore)
\* as far as the getStorage of saveRecord
TabLoad(id, score, maxScore) ==
    /\ lib = "v5"
    /\ tabPc = "idle"
    /\ clock <= MaxClock
    /\ tabPc' = "loaded"
    /\ tabSnap' = Load("v5", store)
    /\ tabArg' = [op |-> "submit", a |-> score, b |-> maxScore, id |-> id]
    /\ UNCHANGED <<lib, hasRoot, store, meta, meta1, isMounted, scoreText, clock, lastCall, ret,
                   maxRaw, access, threw, trackingAdapter, adapterLog, parseLog, upArg>>
    /\ UNCHANGED <<identityVars, pageVars>>

\* the second tab finishes its saveRecord: data[id] = record; setStorage(data)
TabSave ==
    /\ tabPc = "loaded"
    /\ clock <= MaxClock
    /\ tabPc' = "idle"
    /\ lastCall' = [op |-> "tabSave", a |-> tabArg.a, b |-> tabArg.b, id |-> tabArg.id]
    /\ ret' = NoRet
    /\ LET s == MathMax(0, tabArg.a)
           m == MathMax(1, tabArg.b)
           pct == PercentV5(s, m)
           record == IF tabArg.id \in DOMAIN tabSnap THEN tabSnap[tabArg.id]
                     ELSE FallbackRecord
       IN  store' = saveRecordFrom("v5", DefaultRecord, store, tabSnap, tabArg.id,
                                   SubmitUpdates(s, m, pct, JTime(clock), record))
    /\ maxRaw' = Observe(tabArg.id, tabArg.a)
    /\ threw' = FALSE
    /\ Tick
    /\ NoCallbacks
    /\ UNCHANGED <<lib, hasRoot, meta, meta1, isMounted, scoreText, access, trackingAdapter,
                   tabSnap, tabArg, upArg>>
    /\ UNCHANGED <<identityVars, pageVars>>

TabNext ==
    \/ \E p \in TabPairs : Submit(p[1], p[2])
    \/ \E id \in Ids : \E p \in TabPairs : TabLoad(id, p[1], p[2])
    \/ TabSave

TabSpec == TabInit /\ [][TabNext]_vars

\* --- schema migration: canonical v5 on an origin whose older pages still
\* run part_001 and write esheets:v1:progress
\* what a page of canonical v5 may find under the two progress keys
CurrentItems == {NoItem, EmptyItem, GarbageItem, JsonItem(V5Table)}
LegacyItems == {NoItem, GarbageItem, JsonItem(LegacyTable)}
MigrationPairs == {<<JInt(1), JInt(2)>>, <<JInt(2), JInt(2)>>}

MigrationInit ==
    /\ access = "ok"
    /\ lib = "v5"
    /\ hasRoot = TRUE
    /\ \E v5 \in CurrentItems : \E v1 \in LegacyItems :
          store = [k \in Keys |-> IF k = KeyV5 THEN v5 ELSE IF k = KeyV1 THEN v1 ELSE NoItem]
    /\ meta = "undefined"
    /\ meta1 = "undefined"
    /\ isMounted = FALSE
    /\ scoreText = NoText
    /\ clock = 1
    /\ lastCall = NoCall
    /\ ret = NoRet
    /\ maxRaw = [i \in Ids |-> 0]
    /\ threw = FALSE
    /\ trackingAdapter = "none"
    /\ idArg = NoUpdates
    /\ idRet = DefaultIdentity
    /\ adapterLog = NoLog
    /\ NoPage
    /\ NoTab
    /\ upArg = NoFields

\* setScore(score, maxScore) of part_001 on another page of the origin,
\* initialised with worksheet id: it saves under esheets:v1:progress
LegacyPageSetScore(id, score, maxScore) ==
    /\ clock <= MaxClock
    /\ ~saveRecordThrows("auto", store, id)
    /\ lastCall' = [op |-> "legacyPage", a |-> score, b |-> maxScore, id |-> id]
    /\ store' = setScoreImpl("auto", store, id, score, maxScore, JTime(clock))
    /\ ret' = NoRet
    /\ threw' = FALSE
    /\ Tick
    /\ NoCallbacks
    /\ UNCHANGED <<lib, hasRoot, meta, meta1, isMounted, scoreText, maxRaw, access,
                   trackingAdapter>>
    /\ UNCHANGED <<identityVars, pageVars, tabVars, upArg>>

MigrationNext ==
    \/ \E id \in Ids : InitCall(id)
    \/ \E id \in Ids : GetProgress(id)
    \/ \E p \in MigrationPairs : Submit(p[1], p[2])
    \/ \E id \in Ids : \E p \in MigrationPairs : LegacyPageSetScore(id, p[1], p[2])

MigrationSpec == MigrationInit /\ [][MigrationNext]_vars

\* --- an observed element that is, or holds, the score placeholder
\* String(n) of a non-negative integer
RECURSIVE FormatNat(_)
FormatNat(n) ==
    IF n < 10 THEN <<Digits[n + 1]>>
    ELSE FormatNat(n \div 10) \o <<Digits[(n % 10) + 1]>>
\* 'Score: ' + s + ' / ' + m + ' (' + Math.round(pct) + '%)' as characters,
\* for the three integers of a score text
renderScoreText(t) ==
    <<"S", "c", "o", "r", "e", ":", " ">> \o FormatNat(t[1].n) \o <<" ", "/", " ">>
        \o FormatNat(t[2].n) \o <<" ", "(">> \o FormatNat(t[3].n) \o <<"%", ")">>
\* the textContent of the placeholder: element 1's when it is the
\* placeholder, else the last text written to it, empty before any
placeholderText(d, h, st) ==
    IF h = "self" THEN d[1].text
    ELSE IF st = NoText THEN <<>> ELSE renderScoreText(st)
\* the textContent of element 1: its own text, followed by that of the
\* placeholder inside it
elementText(d, h, st) ==
    IF h = "inside" THEN d[1].text \o placeholderText(d, h, st) ELSE d[1].text
\* updatePlaceholders assigns textContent: part_001 only when the text
\* differs, the first module of src/v5/esheets.js always; an assignment
\* replaces the text node and so is a childList mutation
placeholderAssigned(l, old, new) == IF l = "auto" THEN old # new ELSE TRUE

\* one run of parse() on element 1 of document d: when it assigns inside the
\* subtree of element 1, every observer of the element holds a record
\* afterwards, otherwise rest of them do
PipelineRun(d, rest) ==
    LET l == IF lib = "auto" THEN "auto" ELSE "m1"
        id == IF lib = "auto" THEN meta ELSE meta1
    IN  \E txt \in {elementText(d, holder, scoreText)} :
        \E p \in {observerParse(l, txt)} :
        \E t \in {ScoreTextOf(MathMax(0, JInt(p.score)), MathMax(1, JInt(p.max)),
                               Percent(MathMax(0, JInt(p.score)), MathMax(1, JInt(p.max))))} :
        \E assigned \in {p.ok /\ placeholderAssigned(l, placeholderText(d, holder, scoreText),
                                                      renderScoreText(t))} :
           /\ parseLog' = <<p>>
           /\ store' = (IF p.ok
                        THEN setScoreImpl(l, store, id, JInt(p.score), JInt(p.max), JTime(clock))
                        ELSE store)
           /\ scoreText' = (IF p.ok THEN t ELSE scoreText)
           /\ dom' = (IF assigned /\ holder = "self"
                      THEN [d EXCEPT ![1].text = renderScoreText(t)] ELSE d)
           /\ maxRaw' = (IF p.ok /\ ~IdFalsy(id) THEN Observe(id, JInt(p.score)) ELSE maxRaw)
           /\ threw' = (p.ok /\ saveRecordThrows(l, store, id))
           /\ pending' = (IF assigned /\ holder # "apart" THEN observers[1] ELSE rest)

\* attachScoreObserver(element 1): parse() first, whose assignment the
\* observers already attached see, then one more MutationObserver
AttachObserved ==
    /\ clock <= MaxClock
    /\ observers[1] < MaxTimers
    /\ lastCall' = [op |-> "attachScoreObserver", a |-> JInt(1), b |-> Undef,
                    id |-> IF lib = "v5" THEN meta1 ELSE meta]
    /\ ret' = NoRet
    /\ PipelineRun(dom, pending)
    /\ observers' = [observers EXCEPT ![1] = @ + 1]
    /\ Tick
    /\ adapterLog' = NoLog
    /\ UNCHANGED <<lib, hasRoot, meta, meta1, isMounted, access, trackingAdapter, found,
                   timers, holder>>
    /\ UNCHANGED <<identityVars, tabVars, upArg, resetVars>>

\* the page's own script replaces the text of element 1 by txt: every
\* observer of the element gets a record, delivered later
ExternalChange(txt) ==
    /\ clock <= MaxClock
    /\ txt # dom[1].text
    /\ dom' = [dom EXCEPT ![1].text = txt]
    /\ pending' = observers[1]
    /\ lastCall' = [op |-> "externalChange", a |-> JInt(1), b |-> Undef,
                    id |-> IF lib = "v5" THEN meta1 ELSE meta]
    /\ ret' = NoRet
    /\ threw' = FALSE
    /\ clock' = clock + 1
    /\ NoCallbacks
    /\ UNCHANGED <<lib, hasRoot, store, meta, meta1, isMounted, scoreText, maxRaw, access,
                   trackingAdapter, found, timers, observers, holder>>
    /\ UNCHANGED <<identityVars, tabVars, upArg, resetVars>>

\* the callback of one MutationObserver of element 1 that holds records
\* runs parse(); an assignment inside the element's subtree leaves a record
\* with every observer of the element, the running one included; lastCall.b
\* alternates so that one callback run is told apart from the next
Deliver ==
    /\ pending > 0
    /\ lastCall' = [op |-> "observerCallback", a |-> JInt(1),
                    b |-> IF lastCall.op = "observerCallback" /\ lastCall.b = JInt(0)
                          THEN JInt(1) ELSE JInt(0),
                    id |-> IF lib = "v5" THEN meta1 ELSE meta]
    /\ ret' = NoRet
    /\ PipelineRun(dom, pending - 1)
    /\ adapterLog' = NoLog
    /\ UNCHANGED <<lib, hasRoot, meta, meta1, isMounted, access, trackingAdapter, found,
                   timers, observers, holder, clock>>
    /\ UNCHANGED <<identityVars, tabVars, upArg, resetVars>>

QuiescenceTexts == {TxtOne, TxtFull, TxtNoPair, TxtZeroDen}

QuiescenceInit ==
    /\ access = "ok"
    /\ lib \in {"v5", "auto"}
    /\ hasRoot = TRUE
    /\ store = [k \in Keys |-> NoItem]
    /\ meta = "w1"
    /\ meta1 = "undefined"
    /\ isMounted = FALSE
    /\ scoreText = NoText
    /\ clock = 1
    /\ lastCall = NoCall
    /\ ret = NoRet
    /\ maxRaw = [i \in Ids |-> 0]
    /\ threw = FALSE
    /\ trackingAdapter = "none"
    /\ idArg = NoUpdates
    /\ idRet = DefaultIdentity
    /\ adapterLog = NoLog
    /\ dom = <<El({}, Shown, TxtNoPair, FALSE)>>
    /\ found = 0
    /\ timers = 0
    /\ observers = <<0>>
    /\ parseLog = <<>>
    /\ pending = 0
    /\ holder \in {"apart", "self", "inside"}
    /\ buttons = <<>>
    /\ fired = <<>>
    /\ NoTab
    /\ upArg = NoFields

QuiescenceNext ==
    \/ AttachObserved
    \/ \E t \in QuiescenceTexts : ExternalChange(t)
    \/ Deliver

\* the browser delivers the records of an observer that holds some
QuiescenceSpec == QuiescenceInit /\ [][QuiescenceNext]_vars /\ WF_vars(Deliver)

\* --- progress and identity operations on one page
FramePairs == {<<JInt(1), JInt(2)>>, <<JInt(2), JInt(2)>>}
FrameUpdates == {u \in IdentityUpdates : u.first_name = Str(Ann) /\ u.last_name = Str(Lee)}

FrameInit ==
    /\ access = "ok"
    /\ lib \in Libs
    /\ hasRoot = TRUE
    /\ \E v1 \in {NoItem, JsonItem(LegacyTable)} :
       \E v5 \in (IF lib = "v5" THEN {NoItem, JsonItem(V5Table)} ELSE {NoItem}) :
       \E it \in (IF lib = "v5" THEN {IdItem("none", NoData), IdItem("json", SplitData)}
                  ELSE {IdItem("none", NoData)}) :
          store = [k \in Keys |-> IF k = KeyV1 THEN v1 ELSE IF k = KeyV5 THEN v5 ELSE it]
    /\ meta = "undefined"
    /\ meta1 = "undefined"
    /\ isMounted = FALSE
    /\ scoreText = NoText
    /\ clock = 1
    /\ lastCall = NoCall
    /\ ret = NoRet
    /\ maxRaw = [i \in Ids |-> 0]
    /\ threw = FALSE
    /\ trackingAdapter = "none"
    /\ idArg = NoUpdates
    /\ idRet = DefaultIdentity
    /\ adapterLog = NoLog
    /\ NoPage
    /\ NoTab
    /\ upArg = NoFields

FrameNext ==
    \/ \E id \in Ids : InitCall(id)
    \/ \E p \in FramePairs : SetScore(p[1], p[2])
    \/ \E p \in FramePairs : Submit(p[1], p[2])
    \/ NewAttempt
    \/ \E u \in FrameUpdates : SetIdentity(u)

FrameSpec == FrameInit /\ [][FrameNext]_vars

\* --- a storage whose reads fail for a while and whose writes work
ReadFaultPairs == {<<JInt(1), JInt(2)>>, <<JInt(2), JInt(2)>>}

ReadFaultInit ==
    /\ access \in {"ok", "unreadable"}
    /\ lib \in Libs
    /\ hasRoot = TRUE
    /\ \E it \in {NoItem, JsonItem(IF lib = "v5" THEN V5Table ELSE LegacyTable)} :
          store = [k \in Keys |-> IF k = StorageKey(lib) THEN it ELSE NoItem]
    /\ meta = "undefined"
    /\ meta1 = "undefined"
    /\ isMounted = FALSE
    /\ scoreText = NoText
    /\ clock = 1
    /\ lastCall = NoCall
    /\ ret = NoRet
    /\ maxRaw = [i \in Ids |-> 0]
    /\ threw = FALSE
    /\ trackingAdapter = "none"
    /\ idArg = NoUpdates
    /\ idRet = DefaultIdentity
    /\ adapterLog = NoLog
    /\ NoPage
    /\ NoTab
    /\ upArg = NoFields

\* getItem starts or stops throwing
ReadAvailability(a) ==
    /\ a # access
    /\ access' = a
    /\ lastCall' = [op |-> "availability", a |-> Undef, b |-> Undef, id |-> meta]
    /\ ret' = NoRet
    /\ threw' = FALSE
    /\ NoCallbacks
    /\ UNCHANGED <<lib, hasRoot, store, meta, meta1, isMounted, scoreText, clock, maxRaw,
                   trackingAdapter>>
    /\ UNCHANGED <<identityVars, pageVars, tabVars, upArg>>

ReadFaultNext ==
    \/ \E id \in Ids : InitCall(id)
    \/ \E p \in ReadFaultPairs : lib = "auto" /\ SetScore(p[1], p[2])
    \/ \E p \in ReadFaultPairs : Submit(p[1], p[2])
    \/ NewAttempt
    \/ \E id \in Ids : GetProgress(id)
    \/ \E a \in {"ok", "unreadable"} : ReadAvailability(a)

ReadFaultSpec == ReadFaultInit /\ [][ReadFaultNext]_vars

\* --- score discovery on a page of a few elements
DiscoveryInit ==
    /\ access = "ok"
    /\ lib = "auto"
    /\ hasRoot = TRUE
    /\ store = [k \in Keys |-> NoItem]
    /\ meta = "undefined"
    /\ meta1 = "undefined"
    /\ isMounted = FALSE
    /\ scoreText = NoText
    /\ clock = 1
    /\ lastCall = NoCall
    /\ ret = NoRet
    /\ maxRaw = [i \in Ids |-> 0]
    /\ threw = FALSE
    /\ trackingAdapter = "none"
    /\ idArg = NoUpdates
    /\ idRet = DefaultIdentity
    /\ adapterLog = NoLog
    /\ dom \in Doms(MaxDom)
    /\ found = 0
    /\ timers = 0
    /\ observers = [i \in DOMAIN dom |-> 0]
    /\ parseLog = <<>>
    /\ pending = 0
    /\ holder = "apart"
    /\ buttons = <<>>
    /\ fired = <<>>
    /\ NoTab
    /\ upArg = NoFields

DiscoveryNext == FindScoreElement

DiscoverySpec == DiscoveryInit /\ [][DiscoveryNext]_vars

\* --- a page with one score element whose text the page's script changes
ObservedTexts == {TxtOne, TxtNoPair}
MutationTexts == {TxtOne, TxtFull, TxtTwoPairs, TxtNoPair, TxtZeroDen, TxtOverLimit}

ObserverInit ==
    /\ access = "ok"
    /\ lib \in {"v5", "auto"}
    /\ hasRoot = TRUE
    /\ store = [k \in Keys |-> NoItem]
    /\ meta = "undefined"
    /\ meta1 = "undefined"
    /\ isMounted = FALSE
    /\ scoreText = NoText
    /\ clock = 1
    /\ lastCall = NoCall
    /\ ret = NoRet
    /\ maxRaw = [i \in Ids |-> 0]
    /\ threw = FALSE
    /\ trackingAdapter = "none"
    /\ idArg = NoUpdates
    /\ idRet = DefaultIdentity
    /\ adapterLog = NoLog
    /\ \E t \in ObservedTexts : dom = <<El({1}, Shown, t, FALSE)>>
    /\ found = 0
    /\ timers = 0
    /\ observers = <<0>>
    /\ parseLog = <<>>
    /\ pending = 0
    /\ holder = "apart"
    /\ buttons = <<>>
    /\ fired = <<>>
    /\ NoTab
    /\ upArg = NoFields

ObserverNext ==
    \/ InitCall("w1")
    \/ RunTimer
    \/ lib = "v5" /\ AttachScoreObserver(1)
    \/ \E t \in MutationTexts : Mutate(1, t)
    \/ NewAttempt

ObserverSpec == ObserverInit /\ [][ObserverNext]_vars

\* ------------------------------------------------------------ properties
\* the table the loaded build reads
Table == Load(lib, store)
\* the best percent on record for id i in store st as build l reads it
BestPercentOf(l, st, i) == OrZero(RecordOrFallback(l, st, i)["bestPercent"])
\* a <= b for numbers
Leq(a, b) == IsNum(a) /\ IsNum(b) /\ a.n * b.d <= b.n * a.d
\* the step is a submit call
SubmitStep == lastCall'.op = "submit"

\* C1: for every worksheet id, no submit call lowers the stored bestPercent.
C1_BestPercentNeverDecreases ==
    [][\A i \in Ids :
         SubmitStep => Leq(BestPercentOf(lib, store, i), BestPercentOf(lib, store', i))]_vars

\* the step reports an observation with integer arguments to the best-score
\* merge of the active worksheet: a submit past its guards, or setScore of
\* the auto-detecting build
ObservationStep ==
    /\ meta \in Ids
    /\ ArgKind(lastCall'.a, lastCall'.b) = "numbers"
    /\ \/ lastCall'.op = "submit" /\ (lib = "v5" => isMounted)
       \/ lastCall'.op = "setScore" /\ lib = "auto"

\* the step is the observation (a, b)
ObservationOf(a, b) ==
    ObservationStep /\ lastCall'.a = JInt(a) /\ lastCall'.b = JInt(b)

\* the ordered merge rule on integers: the observation (a, b), clamped to
\* s = max(0, a) and m = max(1, b), beats the best (bs, bp) iff its percent
\* 100 s / m is greater than bp, or within 0.001 of bp with s > bs
RuleReplaces(a, b, bs, bp) ==
    LET s == IF a < 0 THEN 0 ELSE a
        m == IF b < 1 THEN 1 ELSE b
    IN  \/ 100 * s * bp.d > bp.n * m
        \/ /\ 1000 * Abs(100 * s * bp.d - bp.n * m) < m * bp.d
           /\ s * bs.d > bs.n

\* the record of i after the step holds the best pair (bs, bp)
BestAfter(i, bs, bp) ==
    /\ i \in DOMAIN Load(lib, store')
    /\ Load(lib, store')[i]["bestScore"] = bs
    /\ Load(lib, store')[i]["bestPercent"] = bp

\* the record of i before the step holds the best pair (bs, bp)
BestBefore(i, bs, bp) ==
    /\ i \in DOMAIN Table
    /\ Table[i]["bestScore"] = bs
    /\ Table[i]["bestPercent"] = bp

\* C2: an observation replaces bestScore/bestPercent iff, after clamping, its
\* percent is greater than the stored best percent or ties it within 0.001
\* with a strictly greater raw score; otherwise both are left as they were.
\* commit(8,10) then commit(9,10) gives 9 at 90%, commit(8,10) then
\* commit(4,5) keeps 8, commit(4,5) then commit(5,5) gives 5 at 100%.
C2_MergeRule ==
    [][/\ ObservationStep =>
            LET i == meta
                old == RecordOrFallback(lib, store, i)
                a == lastCall'.a.n
                b == lastCall'.b.n
            IN  IF RuleReplaces(a, b, OrZero(old["bestScore"]), OrZero(old["bestPercent"]))
                THEN BestAfter(i, JInt(IF a < 0 THEN 0 ELSE a),
                               JNum(100 * (IF a < 0 THEN 0 ELSE a), IF b < 1 THEN 1 ELSE b))
                ELSE BestAfter(i, IF i \in DOMAIN Table THEN old["bestScore"] ELSE JInt(0),
                               IF i \in DOMAIN Table THEN old["bestPercent"] ELSE JInt(0))
       /\ (BestBefore(meta, JInt(8), JInt(80)) /\ ObservationOf(9, 10))
             => BestAfter(meta, JInt(9), JInt(90))
       /\ (BestBefore(meta, JInt(8), JInt(80)) /\ ObservationOf(4, 5))
             => BestAfter(meta, JInt(8), JInt(80))
       /\ (BestBefore(meta, JInt(4), JInt(80)) /\ ObservationOf(5, 5))
             => BestAfter(meta, JInt(5), JInt(100))]_vars

\* a commit of (4, 5) has tied the stored best (8, 80%) and was not taken
C2_Witness ==
    /\ lastCall.op = "submit"
    /\ lastCall.a = JInt(4) /\ lastCall.b = JInt(5)
    /\ \E i \in DOMAIN Table :
         /\ Table[i]["bestScore"] = JInt(8) /\ Table[i]["bestPercent"] = JInt(80)
         /\ Table[i]["lastScore"] = JInt(4) /\ Table[i]["lastPercent"] = JInt(80)

\* C3: every stored record keeps bestPercent = 100 * bestScore / maxScore
\* (maxScore is the denominator that came with the best score).
C3_MaxScoreIsBestDenominator ==
    \A i \in DOMAIN Table :
        (IsNum(Table[i]["bestScore"]) /\ IsNum(Table[i]["maxScore"])
            /\ Gt(Table[i]["maxScore"], JInt(0)))
        => Table[i]["bestPercent"] = Percent(Table[i]["bestScore"], Table[i]["maxScore"])

\* C4: in every stored record bestPercent and lastPercent lie in 0..100.
C4_PercentInRange ==
    \A i \in DOMAIN Table : \A f \in {"bestPercent", "lastPercent"} :
        IsNum(Table[i][f]) => Leq(JInt(0), Table[i][f]) /\ Leq(Table[i][f], JInt(100))

\* C5 as stated: the stored bestScore is the highest raw (clamped) score
\* among the observations committed for the id.
C5_BestScoreIsHighestRaw ==
    \A i \in DOMAIN Table :
        IsNum(Table[i]["bestScore"]) => Table[i]["bestScore"] = JInt(maxRaw[i])

\* C5 amended: the stored bestScore never exceeds the highest raw (clamped)
\* score among the observations committed for the id.
C5_BestScoreAtMostHighestRaw ==
    \A i \in DOMAIN Table :
        IsNum(Table[i]["bestScore"]) => Leq(Table[i]["bestScore"], JInt(maxRaw[i]))

\* a submit with a higher raw score and a lower percent left bestScore alone
C5_Witness ==
    /\ lastCall.op = "submit"
    /\ lastCall.id \in DOMAIN Table
    /\ Gt(Table[lastCall.id]["lastScore"], Table[lastCall.id]["bestScore"])
    /\ Table[lastCall.id]["lastScore"] = JInt(maxRaw[lastCall.id])

\* the last-observation fields of id i in store st as build l reads it
LastOf(l, st, i) ==
    IF i \in DOMAIN Load(l, st)
    THEN <<Load(l, st)[i]["lastScore"], Load(l, st)[i]["lastPercent"], Load(l, st)[i]["submittedAt"]>>
    ELSE <<Undef, Undef, Undef>>

\* C6: every accepted submit(score, max) writes lastScore = max(0, score),
\* lastPercent = 100 * max(0, score) / max (max > 0) and a fresh submittedAt,
\* improved or not; no other operation touches these fields, so they are
\* always those of the most recent submit.
C6_LastIsMostRecentCommit ==
    [][/\ (ObservationStep /\ SubmitStep) =>
            LET a == IF lastCall'.a.n < 0 THEN 0 ELSE lastCall'.a.n
                b == lastCall'.b.n
                new == LastOf(lib, store', meta)
                old == LastOf(lib, store, meta)
            IN  /\ new[1] = JInt(a)
                /\ b > 0 => new[2] = JNum(100 * a, b)
                /\ new[3] = JTime(clock)
                /\ new[3] # old[3]
       /\ ~SubmitStep => \A i \in Ids : LastOf(lib, store', i) = LastOf(lib, store, i)]_vars

\* a submit that did not improve the best has just written the last fields
C6_Witness ==
    /\ lastCall.op = "submit"
    /\ lastCall.id \in DOMAIN Table
    /\ Table[lastCall.id]["submittedAt"] = JTime(clock - 1)
    /\ Gt(Table[lastCall.id]["bestScore"], Table[lastCall.id]["lastScore"])
    /\ Gt(Table[lastCall.id]["bestPercent"], Table[lastCall.id]["lastPercent"])

\* C7: a submit or setScore whose score or max is not a number, or is NaN,
\* changes no key of the persisted storage.
C7_InvalidNumbersChangeNothing ==
    [][(/\ lastCall'.op \in {"submit", "setScore"}
        /\ ArgKind(lastCall'.a, lastCall'.b) \in {"nan", "nonnumber"})
          => store' = store]_vars

\* C8: with an empty or missing worksheet id (or, in canonical v5, before a
\* successful init) submit, setScore and newAttempt leave the persisted
\* storage unchanged, and no table ever holds a record under "" or
\* "undefined".
C8_NoIdNoWrite ==
    [][/\ (/\ lastCall'.op \in {"submit", "setScore", "newAttempt"}
           /\ lastCall'.id \in NoIds \/ (lib = "v5" /\ ~isMounted))
          => store' = store
       /\ \A k \in Keys : DOMAIN store'[k].doc \cap NoIds = {}]_vars

\* submit was called with valid numbers and no worksheet id while the stored
\* table held records
C8_Witness ==
    /\ lastCall.op = "submit"
    /\ ArgKind(lastCall.a, lastCall.b) = "numbers"
    /\ lastCall.id \in NoIds
    /\ lib = "v5" => isMounted
    /\ DOMAIN Table # {}

\* C9: canonical v5, current key without a value, legacy key with a table:
\* getProgress returns the legacy record of the id, or nothing for an id the
\* legacy table does not have, and writes nothing.
C9_LegacyFallbackRead ==
    [][(/\ lib = "v5"
        /\ lastCall'.op = "getProgress"
        /\ store[KeyV5].kind = "none"
        /\ store[KeyV1].kind = "json")
       => /\ store' = store
          /\ ret' = IF lastCall'.id \in DOMAIN store[KeyV1].doc
                    THEN [present |-> TRUE, rec |-> store[KeyV1].doc[lastCall'.id]]
                    ELSE NoRet]_vars

\* getProgress has returned the legacy record of w1 before any upsert
C9_Witness ==
    /\ lib = "v5"
    /\ lastCall.op = "getProgress" /\ lastCall.id = "w1"
    /\ store[KeyV5].kind = "none"
    /\ ret = [present |-> TRUE, rec |-> LegacyTable["w1"]]

\* C10: canonical v5 never changes the legacy key; the first write after a
\* legacy fallback puts the whole table under the current key: the legacy
\* records of the other ids as they were, plus the updated record, which
\* keeps the legacy fields the update does not name.
C10_MigrationNonDestructive ==
    [][lib = "v5" =>
        /\ store'[KeyV1] = store[KeyV1]
        /\ (/\ store[KeyV5].kind = "none"
            /\ store[KeyV1].kind = "json"
            /\ store'[KeyV5] # store[KeyV5])
           => LET legacy == store[KeyV1].doc
                  new == store'[KeyV5].doc
              IN  /\ store'[KeyV5].kind = "json"
                  /\ DOMAIN new = DOMAIN legacy \cup {meta}
                  /\ \A i \in DOMAIN legacy \ {meta} : new[i] = legacy[i]
                  /\ \A i \in DOMAIN legacy \cap {meta} :
                        \A f \in {"attempts", "lastAttemptAt", "completedAt"} :
                            new[i][f] = legacy[i][f]]_vars

\* after a fallback, a submit for w2 has put the legacy record of w1 and the
\* new record of w2 under the current key; the legacy key is as it was
C10_Witness ==
    /\ lib = "v5"
    /\ store[KeyV1] = JsonItem(LegacyTable)
    /\ store[KeyV5].kind = "json"
    /\ DOMAIN store[KeyV5].doc = {"w1", "w2"}
    /\ store[KeyV5].doc["w1"] = LegacyTable["w1"]

\* the last call was a submit with integer arguments that got past its guards
AcceptedSubmit ==
    /\ lastCall.op = "submit"
    /\ lastCall.id \in Ids
    /\ ArgKind(lastCall.a, lastCall.b) = "numbers"
    /\ lib = "v5" => isMounted

\* C11: no public operation throws to its caller, whatever the persisted
\* keys hold (nothing, text that is not JSON, JSON of another shape) and
\* also when the storage API throws.
C11_NoOperationThrows == ~threw

\* C12: when the write of a commit fails (setItem throws), a getProgress that
\* follows in the same page returns the record as that commit updated it.
C12_WriteFailureKeepsSessionState ==
    [][(/\ access # "ok"
        /\ AcceptedSubmit
        /\ ~threw
        /\ lastCall'.op = "getProgress"
        /\ lastCall'.id = lastCall.id)
       => /\ ret'.present
          /\ ret'.rec["lastScore"] = MathMax(0, lastCall.a)]_vars

\* C20: a tracking adapter that throws during a submit of canonical v5 does
\* not make submit throw, and the persisted storage is exactly what the
\* submit leaves without an adapter.
C20_AdapterFailureIsContained ==
    [][(/\ lib = "v5"
        /\ SubmitStep
        /\ trackingAdapter = "throws"
        /\ submitGuardV5(isMounted, meta, lastCall'.a, lastCall'.b)
        /\ ~saveRecordThrows("v5", store, meta))
       => /\ ~threw'
          /\ store' = submit(store, isMounted, meta, lastCall'.a, lastCall'.b, JTime(clock))]_vars

\* a submit has written its record with a throwing adapter installed
C20_Witness ==
    /\ lib = "v5"
    /\ AcceptedSubmit
    /\ trackingAdapter = "throws"
    /\ ~threw
    /\ lastCall.id \in DOMAIN Table
    /\ Table[lastCall.id]["submittedAt"] = JTime(clock - 1)
    /\ Table[lastCall.id]["lastScore"] = MathMax(0, lastCall.a)

\* C17: newAttempt on the active worksheet (the id given to init) leaves a
\* record whose attempts is the old count plus one (1 for an absent record),
\* whose lastAttemptAt is now and whose completedAt is null, with bestScore,
\* bestPercent and maxScore as they were.
C17_NewAttemptCountsOne ==
    [][(/\ lastCall'.op = "newAttempt"
        /\ meta \in Ids
        /\ lib = "v5" => isMounted)
       => LET old == getRecord(lib, store, meta)
              new == getRecord(lib, store', meta)
          IN  /\ new.present
              /\ new.rec["attempts"] =
                    (IF old.present /\ IsNum(old.rec["attempts"])
                     THEN JInt(old.rec["attempts"].n + 1) ELSE JInt(1))
              /\ new.rec["lastAttemptAt"] = JTime(clock)
              /\ new.rec["completedAt"] = Null
              /\ old.present =>
                    \A f \in {"bestScore", "bestPercent", "maxScore"} :
                        new.rec[f] = old.rec[f]]_vars

\* the completedAt of id i in store st as build l reads it
CompletedAtOf(l, st, i) ==
    IF i \in DOMAIN Load(l, st) THEN Load(l, st)[i]["completedAt"] ELSE Undef

\* the observation (a, b), clamped, has a percent within 0.001 of 100
RuleIsComplete(a, b) ==
    LET s == IF a < 0 THEN 0 ELSE a
        m == IF b < 1 THEN 1 ELSE b
    IN  1000 * Abs(100 * s - 100 * m) < m

\* C18 (the build with a completion flag, part_001): an observation at 100 %
\* (within 0.001) sets completedAt when it is not set; an observation never
\* changes a completedAt that is set and never sets one below or above
\* 100 %; newAttempt puts it back to null; nothing else changes it.
C18_CompletionStateMachine ==
    [][lib = "auto" =>
        /\ ObservationStep =>
              LET old == CompletedAtOf(lib, store, meta)
                  new == CompletedAtOf(lib, store', meta)
              IN  IF Truthy(old) THEN new = old
                  ELSE IF RuleIsComplete(lastCall'.a.n, lastCall'.b.n)
                  THEN new = JTime(clock)
                  ELSE ~Truthy(new)
        /\ (lastCall'.op = "newAttempt" /\ meta \in Ids)
              => CompletedAtOf(lib, store', meta) = Null
        /\ \A i \in Ids :
              CompletedAtOf(lib, store', i) # CompletedAtOf(lib, store, i)
              => /\ i = meta
                 /\ ObservationStep \/ lastCall'.op = "newAttempt"]_vars

\* a later observation has rewritten a completed record and left its
\* completedAt as the first 100 % set it
C18_Witness ==
    /\ lib = "auto"
    /\ lastCall.op = "setScore"
    /\ ArgKind(lastCall.a, lastCall.b) = "numbers"
    /\ clock = 3
    /\ CompletedAtOf(lib, store, meta) = JTime(1)

\* C19: only a submit that gets past its guards changes lastScore,
\* lastPercent or submittedAt of a record, and only of the active worksheet;
\* a record that setScore or newAttempt creates has no submittedAt.
C19_OnlyCommitsTouchSubmission ==
    [][\A i \in Ids :
        /\ LastOf(lib, store', i) # LastOf(lib, store, i)
             => /\ SubmitStep
                /\ i = meta
                /\ lib = "v5" => isMounted
                /\ TypeofNumber(lastCall'.a) /\ TypeofNumber(lastCall'.b)
        /\ (i \notin DOMAIN Table /\ i \in DOMAIN Load(lib, store') /\ ~SubmitStep)
             => ~Truthy(LastOf(lib, store', i)[3])]_vars

\* setScore of the auto-detecting build has created a record that was never
\* submitted
C19_Witness ==
    /\ lib = "auto"
    /\ lastCall.op = "setScore"
    /\ lastCall.id \in DOMAIN Table
    /\ Table[lastCall.id]["bestScore"] = MathMax(0, lastCall.a)
    /\ Table[lastCall.id]["lastAttemptAt"] = JTime(clock - 1)
    /\ LastOf(lib, store, lastCall.id) = <<Undef, Undef, Undef>>

\* the class-code grammar: four characters, a hyphen, four characters over
\* A-Z without I and O plus the digits 2-9
GrammarChars ==
    ({UpperCase[i] : i \in 1..26} \ {"I", "O"}) \cup {"2", "3", "4", "5", "6", "7", "8", "9"}
MatchesGrammar(v) ==
    /\ v.t = "string"
    /\ Len(v.s) = 9
    /\ v.s[5] = "-"
    /\ \A i \in (1..9) \ {5} : v.s[i] \in GrammarChars
\* the identity data under the identity key, when it is a JSON object
StoredIdentity == store[KeyIdentity].doc
HasStoredIdentity == store[KeyIdentity].kind = "json"

\* C13: whatever setIdentity has been given, the class_code it returned and
\* the class_code persisted are the empty string or match the grammar.
C13_ClassCodeEmptyOrValid ==
    /\ idRet["class_code"] = EmptyStr \/ MatchesGrammar(idRet["class_code"])
    /\ HasStoredIdentity =>
          \/ StoredIdentity["class_code"] \in {EmptyStr, Missing}
          \/ MatchesGrammar(StoredIdentity["class_code"])

\* setIdentity was given a valid code followed by one more character and
\* wrote a record with an empty class_code
C13_Witness ==
    /\ lastCall.op = "setIdentity"
    /\ idArg["class_code"] = Str(ValidCode \o <<"9">>)
    /\ idArg["first_name"] = Str(Ann)
    /\ HasStoredIdentity
    /\ StoredIdentity["first_name"] = Str(Ann)
    /\ StoredIdentity["class_code"] = EmptyStr

\* what the claim says is stored for each class_code argument
ExpectedCode(x) ==
    IF x \in {Str(<<"a", "b", "3", "t", "-", "7", "x", "y", "z">>),
              Str(<<" ", "a", "b", "3", "t", " ", "-", "7", "x", "y", "z", " ">>),
              Str(<<"A", "B", "3", "T", "-", "7", "X", "Y", "Z">>)}
    THEN Str(<<"A", "B", "3", "T", "-", "7", "X", "Y", "Z">>)
    ELSE IF x = Str(<<"H", "J", "N", "P", "-", "Z", "2", "9", "2">>) THEN x
    ELSE EmptyStr

\* C14: setIdentity({class_code: x}) returns and persists the trimmed,
\* upper-cased, whitespace-free x when that matches the grammar and the
\* empty string otherwise: "ab3t-7xyz" and " ab3t -7xyz " give "AB3T-7XYZ",
\* " ab-cd-ef ", codes with I, O, 0 or 1 and non-strings give "", also over
\* a stored valid code.
C14_ClassCodeNormalized ==
    [][(lastCall'.op = "setIdentity" /\ idArg'["class_code"] # NotGiven)
       => /\ idRet'["class_code"] = ExpectedCode(idArg'["class_code"])
          /\ getIdentityStorage(store')["class_code"] = ExpectedCode(idArg'["class_code"])
          /\ (/\ HasStoredIdentity
              /\ MatchesGrammar(StoredIdentity["class_code"])
              /\ ExpectedCode(idArg'["class_code"]) = EmptyStr)
             => store'[KeyIdentity].doc["class_code"] = EmptyStr]_vars

\* " ab-cd-ef " has replaced the stored valid code of Ann Lee by the empty
\* string
C14_Witness ==
    /\ lastCall.op = "setIdentity"
    /\ idArg = [first_name |-> NotGiven, last_name |-> NotGiven,
                class_code |-> Str(<<" ", "a", "b", "-", "c", "d", "-", "e", "f", " ">>)]
    /\ HasStoredIdentity
    /\ StoredIdentity["first_name"] = Str(Ann)
    /\ StoredIdentity["last_name"] = Str(Lee)
    /\ StoredIdentity["class_code"] = EmptyStr

\* C15: setIdentity changes the identity key iff for some property of the
\* updates the resulting value differs from what getIdentity yielded before
\* the call; then the key holds the whole returned record; otherwise
\* storage is left as it was; no other key is ever written.
C15_IdentityWriteAvoidance ==
    [][lastCall'.op = "setIdentity" =>
        LET current == getIdentityStorage(store)
            differs == \E f \in Given(idArg') : idRet'[f] # current[f]
        IN  /\ \A k \in Keys \ {KeyIdentity} : store'[k] = store[k]
            /\ IF differs
               THEN /\ store'[KeyIdentity] # store[KeyIdentity]
                    /\ store'[KeyIdentity].kind = "json"
                    /\ \A f \in IdFields : store'[KeyIdentity].doc[f] = idRet'[f]
               ELSE store'[KeyIdentity] = store[KeyIdentity]]_vars

\* an invalid class code arrived while nothing was stored, and nothing was
\* written
C15_Witness ==
    /\ lastCall.op = "setIdentity"
    /\ idArg = [first_name |-> NotGiven, last_name |-> NotGiven,
                class_code |-> Str(<<"A", "B", "3", "0", "-", "7", "X", "Y", "Z">>)]
    /\ store[KeyIdentity].kind = "none"
    /\ idRet = DefaultIdentity

\* the stored identity has a combined name and no split name
LegacyStored ==
    /\ HasStoredIdentity
    /\ StoredIdentity["student_name"] = Str(LegacyName)
    /\ StoredIdentity["first_name"] = Missing
    /\ StoredIdentity["last_name"] = Missing

\* C16: with the legacy name " Ann  Lee<tab>Roy " stored and no split
\* fields, getIdentity returns first_name "Ann" and last_name "Lee Roy";
\* getIdentity never writes; a setIdentity that repeats these values
\* writes nothing; a setIdentity that changes a field persists the split.
C16_LegacyNameDerivedOnRead ==
    [][/\ lastCall'.op = "getIdentity" =>
            /\ store' = store
            /\ LegacyStored =>
                  /\ idRet'["first_name"] = Str(<<"A", "n", "n">>)
                  /\ idRet'["last_name"] = Str(<<"L", "e", "e", " ", "R", "o", "y">>)
       /\ (lastCall'.op = "setIdentity" /\ LegacyStored) =>
            IF /\ idArg'["first_name"] \in {NotGiven, Str(<<"A", "n", "n">>)}
               /\ idArg'["last_name"] \in {NotGiven, Str(<<"L", "e", "e", " ", "R", "o", "y">>)}
               /\ idArg'["class_code"] = NotGiven
                    \/ ExpectedCode(idArg'["class_code"]) = EmptyStr
            THEN store' = store
            ELSE /\ store'[KeyIdentity].kind = "json"
                 /\ store'[KeyIdentity].doc["student_name"] = Missing
                 /\ idArg'["first_name"] = NotGiven
                       => store'[KeyIdentity].doc["first_name"] = Str(<<"A", "n", "n">>)
                 /\ idArg'["last_name"] = NotGiven
                       => store'[KeyIdentity].doc["last_name"]
                            = Str(<<"L", "e", "e", " ", "R", "o", "y">>)]_vars

\* setIdentity has repeated the derived names and the legacy record is
\* still what is stored
C16_Witness ==
    /\ lastCall.op = "setIdentity"
    /\ LegacyStored
    /\ idArg["first_name"] = Str(Ann)
    /\ idArg["last_name"] = Str(LeeRoy)
    /\ idRet["first_name"] = Str(Ann)
    /\ idRet["last_name"] = Str(LeeRoy)

\* the numbers of a record of table t as a payload carries them
WrittenOf(t, i) ==
    IF i \in DOMAIN t
    THEN <<t[i]["lastScore"], t[i]["maxScore"], t[i]["lastPercent"], t[i]["submittedAt"]>>
    ELSE <<Undef, Undef, Undef, Undef>>

\* C21: with a tracking adapter installed and healthy storage, a submit of
\* canonical v5 that is accepted (initialised, with a worksheet id and valid
\* numbers) invokes the adapter exactly once, after the record is persisted,
\* with the worksheet id, the score, max, percent and submittedAt just
\* written and the current identity; a rejected submit never invokes it.
C21_AdapterOncePerAcceptedCommit ==
    [][(/\ lib = "v5"
        /\ SubmitStep
        /\ trackingAdapter \in {"ok", "throws"}
        /\ access = "ok"
        /\ StorageShape("v5", store) = "object")
       => IF isMounted /\ meta \in Ids /\ ValidNumbers(lastCall'.a, lastCall'.b)
          THEN /\ adapterLog'.n = 1
               /\ adapterLog'.payload.worksheet_id = meta
               /\ WrittenOf(Load("v5", store'), meta)
                    = <<adapterLog'.payload.score, adapterLog'.payload.maxScore,
                        adapterLog'.payload.percent, adapterLog'.payload.submittedAt>>
               /\ adapterLog'.payload.identity = getIdentityStorage(store')
          ELSE adapterLog'.n = 0]_vars

\* C22: init is idempotent.  On a page whose every init call passes the same
\* configuration, the score element never carries a second observer and one
\* mutation of its text is processed once.
C22_InitIdempotent ==
    lib = "auto" =>
        /\ \A i \in DOMAIN observers : observers[i] <= 1
        /\ Len(parseLog) <= 1

\* the text contains "score" in any case
MentionsScore(t) == \E i \in 1..(Len(t) - 4) : ToLowerCase(SubSeq(t, i, i + 4)) = ScoreWord
\* the element is not rendered: zero width or height, display none,
\* visibility hidden or opacity 0
NotVisible(el) ==
    \/ el.width = 0 \/ el.height = 0
    \/ el.display = "none" \/ el.visibility = "hidden" \/ el.opacity = "0"
\* element i is the first in document order to match one of its selectors
FirstOfASelector(d, i) == \E k \in d[i].sels : \A j \in 1..(i - 1) : k \notin d[j].sels

\* C23: findScoreElement never returns an element that is not visible, and
\* an element it returns from the full scan (one that no conventional selector
\* picks first) has "score" in its text; of a hidden "Score: 9/10" and a
\* visible "Score: 7 / 10" it returns the visible one, and for a lone visible
\* "1/2 of students improved" it returns nothing.
C23_DiscoveryVisibleAndScoped ==
    lastCall.op = "findScoreElement" =>
        /\ found # 0 => ~NotVisible(dom[found])
        /\ (found # 0 /\ ~FirstOfASelector(dom, found)) => MentionsScore(dom[found].text)
        /\ (/\ Len(dom) = 2
            /\ \E i \in 1..2 : dom[i].text = TxtHidden /\ NotVisible(dom[i])
            /\ \E i \in 1..2 : dom[i].text = TxtVisible /\ ~NotVisible(dom[i]))
           => (found # 0 /\ dom[found].text = TxtVisible /\ ~NotVisible(dom[found]))
        /\ (Len(dom) = 1 /\ dom[1].text = TxtFraction /\ dom[1].sels = {}) => found = 0

\* discovery passed over a hidden "Score: 9/10" that comes first and returned
\* the visible "Score: 7 / 10"
C23_Witness ==
    /\ lastCall.op = "findScoreElement"
    /\ Len(dom) = 2
    /\ dom[1].text = TxtHidden /\ dom[1].opacity = "0" /\ dom[1].sels = {1}
    /\ dom[2].text = TxtVisible
    /\ found = 2

\* text t holds "digits, optional spaces, /, optional spaces, digits" from
\* position i to position e, the slash at position k
PairFromTo(t, i, k, e) ==
    /\ i < k /\ k < e
    /\ \E j \in i..(k - 1) :
          /\ \A x \in i..j : IsDigit(t[x])
          /\ \A x \in (j + 1)..(k - 1) : IsSpace(t[x])
    /\ t[k] = "/"
    /\ \E l \in (k + 1)..e :
          /\ \A x \in (k + 1)..(l - 1) : IsSpace(t[x])
          /\ \A x \in l..e : IsDigit(t[x])
PairStarts(t) == {i \in 1..Len(t) : \E k, e \in 1..Len(t) : PairFromTo(t, i, k, e)}
\* what the parsing rule gives for text t: the first pair, taken whole, when
\* its denominator is in 1..500, else nothing
RuleParse(t) ==
    IF PairStarts(t) = {} THEN NoMatch
    ELSE LET i == CHOOSE x \in PairStarts(t) : \A y \in PairStarts(t) : x <= y
             k == CHOOSE x \in 1..Len(t) : \E e \in 1..Len(t) : PairFromTo(t, i, x, e)
             e == CHOOSE x \in 1..Len(t) :
                     /\ PairFromTo(t, i, k, x)
                     /\ \A y \in 1..Len(t) : PairFromTo(t, i, k, y) => y <= x
             num == ParseInt(SelectSeq(SubSeq(t, i, k - 1), IsDigit))
             den == ParseInt(SelectSeq(SubSeq(t, k + 1, e), IsDigit))
         IN  IF den >= 1 /\ den <= 500 THEN [ok |-> TRUE, score |-> num, max |-> den]
             ELSE NoMatch

\* C24: whenever an observer parses the text of its element, it gets the
\* (score, max) of the first "integer / integer" of the text if that
\* denominator is between 1 and 500 and nothing otherwise (a later pair is
\* not used), so every value an observer reports has 1 <= max <= 500.
C24_ParseFirstPairBounded ==
    [][\A n \in DOMAIN parseLog' :
          /\ parseLog'[n] = RuleParse(dom'[1].text)
          /\ parseLog'[n].ok => (parseLog'[n].max >= 1 /\ parseLog'[n].max <= 500)]_vars

\* C27: in part_001, with an observer on the score element, a mutation whose
\* new text parses to (s, m) leaves the store and the placeholders exactly as
\* setScoreImpl(s, m) does, and a mutation whose text does not parse changes
\* neither.
C27_ObserverEqualsSetScore ==
    [][(/\ lib = "auto"
        /\ lastCall'.op = "mutation"
        /\ observers[1] >= 1)
       => LET p == RuleParse(dom'[1].text)
              s == JInt(p.score)
              m == JInt(p.max)
          IN  IF p.ok
              THEN /\ store' = setScoreImpl("auto", store, meta, s, m, JTime(clock))
                   /\ scoreText' = ScoreTextOf(s, m, Percent(s, m))
              ELSE /\ store' = store
                   /\ scoreText' = scoreText]_vars

\* an observed mutation to "Score: 2/2" has been saved as the best of w1
C27_Witness ==
    /\ lib = "auto"
    /\ lastCall.op = "mutation"
    /\ observers[1] >= 1
    /\ dom[1].text = TxtFull
    /\ parseLog # <<>>
    /\ "w1" \in DOMAIN Table
    /\ Table["w1"]["bestScore"] = JInt(2)
    /\ Table["w1"]["completedAt"] = JTime(clock - 1)

\* C25: within one page a callback that runs while a commit is in progress
\* loses no update.  When the tracking adapter of a submit calls submit
\* again, the table afterwards is the outer commit followed by the inner
\* one, and the adapter has been invoked for both.
C25_ReentrantCommitIsSequential ==
    [][(/\ lib = "v5"
        /\ SubmitStep
        /\ adapterResubmits(trackingAdapter, lastCall'.a)
        /\ submitGuardV5(isMounted, meta, lastCall'.a, lastCall'.b)
        /\ ~saveRecordThrows("v5", store, meta))
       => /\ store' = submit(submit(store, isMounted, meta, lastCall'.a, lastCall'.b,
                                    JTime(clock)),
                             isMounted, meta, ResubmitPair[1], ResubmitPair[2], JTime(clock))
          /\ adapterLog'.n = 2
          /\ ~threw']_vars

\* a submit whose adapter submitted 0 / 1 has left both commits in the
\* record: the best of the outer one, the last of the inner one
C25_Witness ==
    /\ lib = "v5"
    /\ AcceptedSubmit
    /\ trackingAdapter = "resubmits"
    /\ adapterLog.n = 2
    /\ lastCall.id \in DOMAIN Table
    /\ Table[lastCall.id]["lastScore"] = JInt(0)
    /\ Table[lastCall.id]["bestScore"] = JInt(2)
    /\ lastCall.a = JInt(2)

\* C26: the save of a tab whose load and save were cut apart replaces the
\* whole table by the snapshot it loaded: every other worksheet's record is
\* what the snapshot held (or absent if the snapshot had none), whatever was
\* written in between.
C26_LastWriteWins ==
    [][lastCall'.op = "tabSave"
       => \A i \in Ids \ {tabArg.id} :
             /\ (i \in DOMAIN Load("v5", store')) = (i \in DOMAIN tabSnap)
             /\ i \in DOMAIN tabSnap => Load("v5", store')[i] = tabSnap[i]]_vars

\* this page committed a score for w1 while the second tab was between load
\* and save of a commit for w2; after that save the table has no record of
\* w1 and its best percent is back to 0
C26_Witness ==
    /\ lastCall.op = "tabSave"
    /\ lastCall.id = "w2"
    /\ maxRaw["w1"] > 0
    /\ "w1" \notin DOMAIN Table
    /\ "w2" \in DOMAIN Table
    /\ BestPercentOf("v5", store, "w1") = JInt(0)

\* the step is a read: getProgress or getIdentity
ReadStep == lastCall'.op \in {"getProgress", "getIdentity"}

\* C28: reads are pure.  getProgress returns the stored record of the id, or
\* nothing when the table has none, and neither getProgress nor getIdentity
\* writes any key, also when the table comes from the legacy key.
C28_ReadsArePure ==
    [][ReadStep
       => /\ store' = store
          /\ lastCall'.op = "getProgress"
             => ret' = (IF lastCall'.id \in DOMAIN Load(lib, store)
                        THEN [present |-> TRUE, rec |-> Load(lib, store)[lastCall'.id]]
                        ELSE NoRet)]_vars

\* getProgress of canonical v5 returned the record of w1 out of the legacy
\* key, and the current key is still not there
C28_Witness ==
    /\ lib = "v5"
    /\ lastCall.op = "getProgress"
    /\ lastCall.id = "w1"
    /\ ret.present
    /\ ret.rec = LegacyTable["w1"]
    /\ store[KeyV5] = NoItem

\* the value is a zero default: 0, or absent
ZeroOrAbsent(v) == v \in {JInt(0), Null, Undef}

\* C29: saveRecord(id, updates) with an id returns a record whose named
\* fields are the given values and whose other fields are the previous
\* stored values, or zero defaults when there was no record; it persists that
\* record, so a getRecord(id) that follows returns the same.
C29_UpsertMergesAndPersists ==
    [][(lastCall'.op = "saveRecord" /\ lastCall'.id \in Ids)
       => LET old == getRecord(lib, store, lastCall'.id)
              new == getRecord(lib, store', lastCall'.id)
          IN  /\ ret'.present
              /\ new = ret'
              /\ \A f \in Fields :
                    IF f \in DOMAIN upArg' THEN ret'.rec[f] = upArg'[f]
                    ELSE IF old.present THEN ret'.rec[f] = old.rec[f]
                    ELSE ZeroOrAbsent(ret'.rec[f])]_vars

\* an update of the attempts fields has kept the best score the record of w1
\* had
C29_Witness ==
    /\ lastCall.op = "saveRecord"
    /\ lastCall.id = "w1"
    /\ upArg = AttemptFields
    /\ "w1" \in DOMAIN Table
    /\ Table["w1"]["attempts"] = JInt(3)
    /\ Table["w1"]["bestScore"] = LegacyTable["w1"]["bestScore"]
    /\ Table["w1"]["bestScore"] # JInt(0)

\* the fields of the current schema of build l: those its default record has
SchemaFields(l) == {f \in Fields : DefaultOf(l)[f] # Undef}

\* C30: a record that getProgress returns has every field of the current
\* schema, absent ones at their defaults, and the read does not rewrite the
\* stored table.
C30_ReadSuppliesDefaults ==
    [][(lastCall'.op = "getProgress" /\ ret'.present)
       => /\ \A f \in SchemaFields(lib) : ret'.rec[f] # Undef
          /\ store' = store]_vars

\* the elements of document d that selector k matches, that are visible and
\* whose text holds a score pair
GoodMatches(d, k) ==
    {i \in 1..Len(d) : k \in d[i].sels /\ ~NotVisible(d[i]) /\ RuleParse(d[i].text).ok}

\* C31: step 1 of discovery.  When some visible element that matches a
\* conventional selector has a text that parses as a score pair,
\* findScoreElement returns such an element of the earliest selector that has
\* one, also when an earlier match of that selector is hidden or does not
\* parse.
C31_QuickWinAnyVisibleMatch ==
    lastCall.op = "findScoreElement" =>
        LET ks == {k \in Selectors : GoodMatches(dom, k) # {}}
        IN  ks # {} =>
               LET k == CHOOSE x \in ks : \A y \in ks : x <= y
               IN  found \in GoodMatches(dom, k)

\* the elements of document d that survive the full scan: visible, a trimmed
\* text of 3 to 80 characters that mentions "score" and holds a score pair
Survivors(d) ==
    {i \in 1..Len(d) :
        /\ ~NotVisible(d[i])
        /\ Len(Trim(d[i].text)) >= 3 /\ Len(Trim(d[i].text)) <= 80
        /\ MentionsScore(d[i].text)
        /\ RuleParse(d[i].text).ok}
\* no selector's first match is visible with a text that parses, so the
\* scan decides
ScanDecides(d) ==
    \A k \in Selectors : \A i \in GoodMatches(d, k) : \E j \in 1..(i - 1) : k \in d[j].sels
\* (penalty, length) of element i is at most that of element j in
\* lexicographic order
RankAtMost(d, i, j) ==
    \/ d[j].controls /\ ~d[i].controls
    \/ d[i].controls = d[j].controls /\ Len(Trim(d[i].text)) <= Len(Trim(d[j].text))

\* C32: when the full scan decides, findScoreElement returns a survivor of
\* minimal (penalty, text length): one without input, button, select or
\* textarea before any one with, whatever their lengths, and the shortest
\* among equal penalty; a survivor with controls is returned when it is the
\* only one, and nothing is returned only when nothing survives.
C32_ScanRanksByPenaltyThenLength ==
    (lastCall.op = "findScoreElement" /\ ScanDecides(dom)) =>
        IF Survivors(dom) = {} THEN found = 0
        ELSE /\ found \in Survivors(dom)
             /\ \A j \in Survivors(dom) : RankAtMost(dom, found, j)

\* the shorter "SCORE 12/500" holds a control and comes first, the longer
\* "Score: 7 / 10" does not: the scan returned the second
C32_Witness ==
    /\ lastCall.op = "findScoreElement"
    /\ Len(dom) = 2
    /\ dom[1].text = TxtAtLimit /\ dom[1].controls /\ ~NotVisible(dom[1])
    /\ dom[2].text = TxtVisible /\ ~dom[2].controls /\ dom[2].sels = {}
    /\ found = 2

\* C33: in the explicit-submission builds (v5.1 and canonical v5) setScore
\* writes no storage key, whatever its arguments and the state before: the
\* store is the same afterwards, and so is the record getProgress returns.
C33_SetScoreWritesNoStorage ==
    [][(lastCall'.op = "setScore" /\ lib \in {"v5", "v51"})
       => /\ store' = store
          /\ getRecord(lib, store', meta) = getRecord(lib, store, meta)]_vars

\* setScore has rewritten the score text of a worksheet that has a stored
\* record
C33_Witness ==
    /\ lastCall.op = "setScore"
    /\ lib \in {"v5", "v51"}
    /\ scoreText # NoText
    /\ meta \in Ids
    /\ meta \in DOMAIN Table

\* the record of id in the table a storage item holds, nothing when the item
\* is not a JSON table or the table has no such id
RecordIn(item, id) ==
    IF item.kind = "json" /\ id \in DOMAIN item.doc
    THEN [present |-> TRUE, rec |-> item.doc[id]]
    ELSE [present |-> FALSE, rec |-> EmptyRecord]

\* C34: the legacy key is read only while the current key has no stored
\* value.  Once the current key holds a value, a read gives what the current
\* key holds whatever the legacy key holds or comes to hold, and a current
\* value that does not parse gives the empty table, not the legacy table.
C34_LegacyOnlyWhileCurrentAbsent ==
    [][(/\ lib = "v5"
        /\ lastCall'.op = "getProgress"
        /\ store[KeyV5].kind # "none")
       => ret' = RecordIn(store[KeyV5], lastCall'.id)]_vars

\* C35: observer quiescence.  Whenever an observer of the score element
\* holds undelivered records, the page reaches a state in which no observer
\* holds any, also when the placeholder that the pipeline rewrites is the
\* observed element or lies inside it.
C35_ObserverQuiesces == (pending > 0) ~> (pending = 0)

\* C36: with working storage no step removes a record from the progress
\* table or changes the record of an id other than the one the operation
\* acts on; init, setScore, submit, newAttempt and getProgress leave the
\* identity key as it was, and setIdentity and getIdentity leave both
\* progress keys as they were.
C36_OtherRecordsAndKeysUntouched ==
    [][/\ \A i \in DOMAIN Load(lib, store) :
            /\ i \in DOMAIN Load(lib, store')
            /\ i # lastCall'.id => Load(lib, store')[i] = Load(lib, store)[i]
       /\ lastCall'.op \in {"init", "setScore", "submit", "newAttempt", "getProgress"}
            => store'[KeyIdentity] = store[KeyIdentity]
       /\ lastCall'.op \in {"setIdentity", "getIdentity"}
            => (store'[KeyV5] = store[KeyV5] /\ store'[KeyV1] = store[KeyV1])]_vars

\* a submit for w1 has been stored next to the record of w2 and an identity
\* that were there before
C36_Witness ==
    /\ lastCall.op = "submit" /\ lastCall.id = "w1"
    /\ "w1" \in DOMAIN Table
    /\ "w2" \in DOMAIN Table /\ Table["w2"] = V5Table["w2"]
    /\ store[KeyIdentity] = IdItem("json", SplitData)

\* the table that is in storage under the key the build writes, whether or
\* not it can be read
StoredTable(st) == IF st[StorageKey(lib)].kind = "json" THEN st[StorageKey(lib)].doc
                   ELSE EmptyTable

\* C37: a failed read during an upsert destroys nothing.  When a submit,
\* score report or newAttempt has written the store, every id of the table that
\* was in storage is still in it, the records of the other ids are as they
\* were, and the best percent of the operation's own id is not lower.
C37_FailedReadKeepsStoredData ==
    [][(lastCall'.op \in {"submit", "setScore", "newAttempt"} /\ store' # store)
       => \A i \in DOMAIN StoredTable(store) :
             /\ i \in DOMAIN StoredTable(store')
             /\ i # lastCall'.id => StoredTable(store')[i] = StoredTable(store)[i]
             /\ i = lastCall'.id => Leq(OrZero(StoredTable(store)[i]["bestPercent"]),
                                        OrZero(StoredTable(store')[i]["bestPercent"]))]_vars

\* C38: src/v5/esheets.js has one session.  After init with a worksheet id,
\* newAttempt acts on that id and on the storage key that submit and
\* getProgress use: it changes the record getProgress returns and writes
\* nothing under another key.
C38_OneSessionAcrossModules ==
    [][(lib = "v5" /\ lastCall'.op = "newAttempt" /\ meta \in Ids)
       => /\ lastCall'.id = meta
          /\ getRecord("v5", store', meta) # getRecord("v5", store, meta)
          /\ store'[KeyV1] = store[KeyV1]]_vars

\* ------------------------------------------------- the two-click reset
\* the pages that load the reset protocol: src/v2/esheets.js, whose two
\* modules each run initTwoClickReset on load, and src/unnamed/part_002
ResetLibs == {"v2", "p2"}
\* how many modules of the loaded file register the two-click handlers
Registrations(l) == IF l = "v2" THEN 2 ELSE 1
\* the data-esheets-reset buttons of the document
MaxButtons == 3
ButtonIds == 1..MaxButtons
\* click targets: a reset button, or 0 for any element outside every reset button
Targets == 0..MaxButtons

\* one button after initTwoClickReset: armed = false, timer = null, original text
FreshButton(l) ==
    [text |-> "original",
     armed |-> [h \in 1..Registrations(l) |-> FALSE],
     timer |-> [h \in 1..Registrations(l) |-> FALSE]]

\* a disarm() that leaves the timer alone
disarmKeepingTimer(btn, h) ==
    [btn EXCEPT !.armed[h] = FALSE, !.text = "original"]

\* disarm() of registration h
disarm(btn, h) ==
    [btn EXCEPT !.armed[h] = FALSE, !.text = "original", !.timer[h] = FALSE]

\* the button's click listener of registration h
ButtonClickListener(btn, h) ==
    IF ~btn.armed[h]
    THEN [btn EXCEPT !.armed[h] = TRUE, !.text = "armed", !.timer[h] = TRUE]
    ELSE disarm(btn, h)

\* the click listeners of the target button, registrations h..n in the order
\* they were added
RECURSIVE TargetPhase(_, _, _)
TargetPhase(btn, h, n) ==
    IF h > n THEN btn ELSE TargetPhase(ButtonClickListener(btn, h), h + 1, n)

\* the document's click listener that registration h added for this button,
\* for a click whose target is not inside the button
DocumentClickListener(btn, h) ==
    IF ~btn.armed[h] THEN btn ELSE disarm(btn, h)

RECURSIVE BubblePhase(_, _, _)
BubblePhase(btn, h, n) ==
    IF h > n THEN btn ELSE BubblePhase(DocumentClickListener(btn, h), h + 1, n)

\* e.stopPropagation() was called by a listener of the target
Stopped(t) ==
    /\ t # 0
    /\ \E h \in 1..Registrations(lib) : ~buttons[t].armed[h]

\* the esheets:reset events the listeners of the target dispatch
Dispatched(t) ==
    Cardinality({h \in 1..Registrations(lib) : buttons[t].armed[h]})

\* the variables the reset protocol neither reads nor writes
resetFrame == <<lib, hasRoot, store, meta, meta1, isMounted, scoreText, clock, ret, maxRaw,
                access, threw, trackingAdapter, idArg, idRet, adapterLog, dom, found,
                timers, observers, parseLog, tabPc, tabSnap, tabArg, upArg, pending, holder>>

\* a click on target t: the listeners of the target run, then, unless
\* propagation was stopped, the document's listeners
Click(t) ==
    /\ lastCall' = [op |-> "click", a |-> JInt(t), b |-> Undef, id |-> "undefined"]
    /\ buttons' = [b \in ButtonIds |->
          IF b = t THEN TargetPhase(buttons[b], 1, Registrations(lib))
          ELSE IF Stopped(t) THEN buttons[b]
          ELSE BubblePhase(buttons[b], 1, Registrations(lib))]
    /\ fired' = [b \in ButtonIds |-> IF b = t THEN Dispatched(t) ELSE 0]
    /\ UNCHANGED resetFrame

\* the setTimeout(disarm, timeout) callback of registration h of button b
ResetTimeout(b, h) ==
    /\ buttons[b].timer[h]
    /\ lastCall' = [op |-> "resetTimeout", a |-> JInt(b), b |-> JInt(h), id |-> "undefined"]
    /\ buttons' = [buttons EXCEPT ![b] = disarm(buttons[b], h)]
    /\ fired' = [c \in ButtonIds |-> 0]
    /\ UNCHANGED resetFrame

ResetInit ==
    /\ access = "ok"
    /\ lib \in ResetLibs
    /\ hasRoot = TRUE
    /\ store = [k \in Keys |-> NoItem]
    /\ meta = "undefined"
    /\ meta1 = "undefined"
    /\ isMounted = FALSE
    /\ scoreText = NoText
    /\ clock = 1
    /\ lastCall = NoCall
    /\ ret = NoRet
    /\ maxRaw = [i \in Ids |-> 0]
    /\ threw = FALSE
    /\ trackingAdapter = "none"
    /\ idArg = NoUpdates
    /\ idRet = DefaultIdentity
    /\ adapterLog = NoLog
    /\ dom = <<>>
    /\ found = 0
    /\ timers = 0
    /\ observers = <<>>
    /\ parseLog = <<>>
    /\ pending = 0
    /\ holder = "apart"
    /\ buttons = [b \in ButtonIds |-> FreshButton(lib)]
    /\ fired = [b \in ButtonIds |-> 0]
    /\ NoTab
    /\ upArg = NoFields

ResetNext ==
    \/ \E t \in Targets : Click(t)
    \/ \E b \in ButtonIds : \E h \in 1..Registrations(lib) : ResetTimeout(b, h)

ResetSpec == ResetInit /\ [][ResetNext]_vars

\* the armed registrations of button b
ArmedRegistrations(b) == {h \in 1..Registrations(lib) : buttons[b].armed[h]}

\* what one step does to registration h of button b
TwoClickStep(b, h) ==
    LET clicked == lastCall'.op = "click" /\ lastCall'.a = JInt(b)
        expired == /\ lastCall'.op = "resetTimeout"
                   /\ lastCall'.a = JInt(b)
                   /\ lastCall'.b = JInt(h)
        none == ArmedRegistrations(b) = {}
        all == ArmedRegistrations(b) = 1..Registrations(lib)
    IN  /\ fired'[b] > 0 => clicked /\ ~none
        /\ fired'[b] <= Cardinality(ArmedRegistrations(b))
        /\ ~buttons[b].armed[h] /\ buttons'[b].armed[h] => clicked
        /\ clicked /\ ~buttons[b].armed[h] => buttons'[b].armed[h]
        /\ clicked /\ none => fired'[b] = 0 /\ buttons'[b].text = "armed"
        /\ clicked /\ buttons[b].armed[h] => ~buttons'[b].armed[h]
        /\ clicked /\ all => fired'[b] >= 1 /\ buttons'[b].text = "original"
        /\ expired => ~buttons'[b].armed[h] /\ buttons'[b].text = "original"
        /\ buttons'[b].armed[h] <=> buttons'[b].timer[h]

C39_TimeoutWitness ==
    /\ lastCall.op = "resetTimeout"
    /\ lastCall.a = JInt(1)
    /\ ArmedRegistrations(1) = {}
    /\ buttons[1].text = "original"

\* a click outside button b leaves every registration of b disarmed
ClickAwayStep(b) ==
    lastCall'.op = "click" /\ lastCall'.a # JInt(b)
        => \A h \in 1..Registrations(lib) : ~buttons'[b].armed[h]

\* the buttons that show as armed
ArmedButtons == {b \in ButtonIds : ArmedRegistrations(b) # {}}

\* C40: a click whose target is outside an armed reset button disarms it,
\* a click on another reset button included, so that at most one reset
\* button is armed
C40_ClickAwayDisarms ==
    [][/\ \A b \in ButtonIds : ClickAwayStep(b)
       /\ Cardinality({b \in ButtonIds : \E h \in 1..Registrations(lib) :
                          buttons'[b].armed[h]}) <= 1]_vars

\* two reset buttons are armed at once
C40_TwoArmed == Cardinality(ArmedButtons) >= 2

\* a click outside every reset button leaves every registration disarmed
C40_ClickElsewhereDisarms ==
    [][lastCall'.op = "click" /\ lastCall'.a = JInt(0)
          => \A b \in ButtonIds : \A h \in 1..Registrations(lib) :
                ~buttons'[b].armed[h]]_vars

\* a confirming click on a button disarms every other button
C40_ConfirmDisarmsOthers ==
    [][\A b \in ButtonIds :
          lastCall'.op = "click" /\ fired'[b] = Registrations(lib)
             => \A c \in ButtonIds : \A h \in 1..Registrations(lib) :
                   ~buttons'[c].armed[h]]_vars
====
